---- MODULE Spec2Model ----
(***************************************************************************)
(* A model of the sde-sim-rs Monte Carlo engine: the Filtration tensor,    *)
(* the incrementors, the Pseudo and Sobol RNG backends and the Euler and   *)
(* Runge-Kutta kernels driven by simulate.                                 *)
(*                                                                         *)
(* Real numbers are kept exact as integers.  A tensor value v is stored as *)
(* v * Scale with Scale a power of two, so that the halving of the         *)
(* Runge-Kutta commit is exact; time steps are perfect squares, so that    *)
(* sqrt(dt) is an integer.  Indices are the 0-based indices of the code.   *)
(***************************************************************************)
EXTENDS Integers, Sequences, FiniteSets, TLC

\* ---------------------------------------------------------------- bounds
MaxScenarios == 2
MaxTimes == 3
MantissaBits == 2
\* Probabilities of the Poisson search are kept as multiples of 1 / PScale.
PScale == 10000

\* ------------------------------------------------------ program constants
SobolSkip == 5
PoissonCap == 200

\* ---------------------------------------------------------------- helpers
None == [tag |-> "None"]
Some(x) == [tag |-> "Some", val |-> x]
IsSome(o) == o.tag = "Some"

RECURSIVE Pow2(_)
Pow2(n) == IF n = 0 THEN 1 ELSE 2 * Pow2(n - 1)

\* Tensor values are stored multiplied by Scale.
Scale == Pow2(MaxTimes)

Abs(x) == IF x < 0 THEN -x ELSE x

\* f64::sqrt on the perfect squares the time grids produce.
Sqrt(x) == CHOOSE r \in 0..x : r * r = x

\* Bitwise exclusive or of two naturals below 2^n.
RECURSIVE Xor(_, _, _)
Xor(a, b, n) ==
    IF n = 0 THEN 0
    ELSE ((a + b) % 2) + 2 * Xor(a \div 2, b \div 2, n - 1)

\* ------------------------------------------------------------- uniforms
\* A uniform of the RNG layer is the numerator u of the real u / UDen.
\* The streams produce the odd numerators; 0 is the real 0.0.
Levels == Pow2(MantissaBits)
UDen == 2 * Levels
MantissaMask == Levels - 1

\* The n-th 64-bit word of a ChaCha8 stream seeded with seed.
RandomU64(seed, n) ==
    (5 * seed + 3 * n + (n \div 2) * (seed + 1)) % (4 * Levels)

\* rng.random::<f64>(): the high bits of the next word, in [0, 1).
RandomF64(seed, n) == 2 * (RandomU64(seed, n) \div 4) + 1

\* Component j (0-based) of the n-th point of the Sobol sequence.
SobolComponent(n, j) == 2 * ((n * (j + 1) + (n \div 2) + j) % Levels) + 1

SobolPoint(n, dims) == [j \in 1..dims |-> SobolComponent(n, j - 1)]

\* ------------------------------------------------------------ Filtration
\* A Filtration is [times, scenarios, process_names, raw_values, log];
\* raw_values is the contiguous storage of an array of shape (N, S, P),
\* indexed from 0; log lists the offsets written, in the order of the writes.
NumTimes(f) == Len(f.times)
NumScenarios(f) == Len(f.scenarios)
NumProcesses(f) == Len(f.process_names)

\* Linear offset of raw_values[[t_idx, s_idx, p_idx]].
Offset(f, t_idx, s_idx, p_idx) ==
    t_idx * NumScenarios(f) * NumProcesses(f) + s_idx * NumProcesses(f) + p_idx

get_raw(f, t_idx, s_idx, p_idx) == f.raw_values[Offset(f, t_idx, s_idx, p_idx)]

set_raw(f, t_idx, s_idx, p_idx, val) ==
    [f EXCEPT !.raw_values[Offset(f, t_idx, s_idx, p_idx)] = val,
              !.log = Append(@, Offset(f, t_idx, s_idx, p_idx))]

\* The index maps collect (key, index) pairs in order: the last index of a
\* key wins; -1 stands for a key that is absent.
IndexOf(seq, key) ==
    LET hits == {i \in 1..Len(seq) : seq[i] = key}
    IN  IF hits = {} THEN -1 ELSE (CHOOSE i \in hits : \A j \in hits : j <= i) - 1

indices(f, time, scenario, process_name) ==
    LET t == IndexOf(f.times, time)
        s == IndexOf(f.scenarios, scenario)
        p == IndexOf(f.process_names, process_name)
    IN  IF t < 0 \/ s < 0 \/ p < 0 THEN None
        ELSE Some([t |-> t, s |-> s, p |-> p])

set_value(f, time, scenario, process_name, val) ==
    LET idx == indices(f, time, scenario, process_name)
    IN  IF IsSome(idx) THEN set_raw(f, idx.val.t, idx.val.s, idx.val.p, val) ELSE f

\* The value a name has in an initial-value map, 0.0 when it has none.
InitialValue(values, name) ==
    IF name \in DOMAIN values THEN values[name] * Scale ELSE 0

RECURSIVE SetInitialNames(_, _, _, _)
SetInitialNames(f, values, scenario, k) ==
    IF k > Len(f.process_names) THEN f
    ELSE SetInitialNames(
             set_value(f, f.times[1], scenario, f.process_names[k],
                       InitialValue(values, f.process_names[k])),
             values, scenario, k + 1)

RECURSIVE SetInitialScenarios(_, _, _)
SetInitialScenarios(f, values, k) ==
    IF k > Len(f.scenarios) THEN f
    ELSE SetInitialScenarios(SetInitialNames(f, values, f.scenarios[k], 1),
                             values, k + 1)

\* set_initial_values leaving out the first scenario.
set_initial_values_skip_first(f, values) == SetInitialScenarios(f, values, 2)

set_initial_values(f, values) == SetInitialScenarios(f, values, 1)

\* An array that is zero except for its last cell.
ZerosExceptLast(n) == [i \in 0..(n - 1) |-> IF i = n - 1 THEN 1 ELSE 0]

Zeros(n) == [i \in 0..(n - 1) |-> 0]

\* Filtration::new over a zero-filled array, as its callers build it.
NewFiltration(times, scenarios, process_names, initial_values) ==
    LET f == [times |-> times, scenarios |-> scenarios,
              process_names |-> process_names,
              raw_values |-> Zeros(Len(times) * Len(scenarios) * Len(process_names)),
              log |-> <<>>]
    IN  IF IsSome(initial_values) THEN set_initial_values(f, initial_values.val)
        ELSE f

\* DfRows with every record carrying the value of the first process.
RECURSIVE DfRowsFirstProcess(_, _, _, _)
DfRowsFirstProcess(f, t_idx, s_idx, p_idx) ==
    IF t_idx >= NumTimes(f) THEN <<>>
    ELSE IF s_idx >= NumScenarios(f) THEN DfRowsFirstProcess(f, t_idx + 1, 0, 0)
    ELSE IF p_idx >= NumProcesses(f) THEN DfRowsFirstProcess(f, t_idx, s_idx + 1, 0)
    ELSE << [time |-> f.times[t_idx + 1], scenario |-> f.scenarios[s_idx + 1],
             process_name |-> f.process_names[p_idx + 1],
             value |-> get_raw(f, t_idx, s_idx, 0)] >>
         \o DfRowsFirstProcess(f, t_idx, s_idx, p_idx + 1)

\* The records (time, scenario, process_name, value), in the order pushed.
RECURSIVE DfRows(_, _, _, _)
DfRows(f, t_idx, s_idx, p_idx) ==
    IF t_idx >= NumTimes(f) THEN <<>>
    ELSE IF s_idx >= NumScenarios(f) THEN DfRows(f, t_idx + 1, 0, 0)
    ELSE IF p_idx >= NumProcesses(f) THEN DfRows(f, t_idx, s_idx + 1, 0)
    ELSE << [time |-> f.times[t_idx + 1], scenario |-> f.scenarios[s_idx + 1],
             process_name |-> f.process_names[p_idx + 1],
             value |-> get_raw(f, t_idx, s_idx, p_idx)] >>
         \o DfRows(f, t_idx, s_idx, p_idx + 1)

to_dataframe(f) == DfRows(f, 0, 0, 0)

\* Indexed access of the step kernels: (scenario_idx, time_idx, process_idx).
Get(f, s_idx, t_idx, p_idx) == get_raw(f, t_idx, s_idx, p_idx)
Set(f, s_idx, t_idx, p_idx, val) == set_raw(f, t_idx, s_idx, p_idx, val)

\* ------------------------------------------------------------------- RNG
\* An RNG backend is [kind, last_step, num_increments, seed, draws,
\* sobol_next, dims, scr_seed, scr_draws, calls]: seed and draws are the
\* ChaCha8 stream of the Pseudo backend and its position, sobol_next the
\* index of the next point of the Sobol iterator, scr_seed and scr_draws the
\* stream of the scrambler; calls counts the calls of sample.
NewPseudoRng(num_increments, seed) ==
    [kind |-> "pseudo", last_step |-> None, num_increments |-> num_increments,
     seed |-> seed, draws |-> 0, sobol_next |-> 0, dims |-> 0,
     scr_seed |-> 0, scr_draws |-> 0, calls |-> 0]

NewSobolRng(num_increments, num_timesteps, scr_seed) ==
    [kind |-> "sobol", last_step |-> None, num_increments |-> num_increments,
     seed |-> 0, draws |-> 0, sobol_next |-> SobolSkip,
     dims |-> (num_timesteps - 1) * num_increments,
     scr_seed |-> scr_seed, scr_draws |-> 0, calls |-> 0]

\* values.get(i).copied().unwrap_or(0.0) on a 0-based index.
GetOrZero(values, i) == IF i >= 0 /\ i < Len(values) THEN values[i + 1] ELSE 0

PseudoRefreshCache(rng, time_idx, scenario_idx) ==
    [rng EXCEPT
       !.last_step = Some([time_idx |-> Some(time_idx),
                           scenario_idx |-> scenario_idx,
                           values |-> [j \in 1..rng.num_increments |->
                                         RandomF64(rng.seed, rng.draws + j - 1)]]),
       !.draws = rng.draws + rng.num_increments]

\* PseudoSample drawing fresh uniforms on every call.
PseudoSampleAlwaysRefresh(rng, time_idx, scenario_idx, increment_idx) ==
    LET r == PseudoRefreshCache(rng, time_idx, scenario_idx)
    IN  [value |-> GetOrZero(r.last_step.val.values, increment_idx),
         rng |-> [r EXCEPT !.calls = rng.calls + 1],
         failed |-> FALSE]

\* PseudoSample taking the cache for valid whenever the scenario matches.
PseudoSampleSameScenario(rng, time_idx, scenario_idx, increment_idx) ==
    LET is_cached == /\ IsSome(rng.last_step)
                     /\ rng.last_step.val.scenario_idx = scenario_idx
        r == IF is_cached THEN rng
             ELSE PseudoRefreshCache(rng, time_idx, scenario_idx)
    IN  [value |-> GetOrZero(r.last_step.val.values, increment_idx),
         rng |-> [r EXCEPT !.calls = rng.calls + 1],
         failed |-> FALSE]

PseudoSample(rng, time_idx, scenario_idx, increment_idx) ==
    LET is_cached == /\ IsSome(rng.last_step)
                     /\ rng.last_step.val.scenario_idx = scenario_idx
                     /\ IsSome(rng.last_step.val.time_idx)
                     /\ rng.last_step.val.time_idx.val = time_idx
        r == IF is_cached THEN rng
             ELSE PseudoRefreshCache(rng, time_idx, scenario_idx)
    IN  [value |-> GetOrZero(r.last_step.val.values, increment_idx),
         rng |-> [r EXCEPT !.calls = rng.calls + 1],
         failed |-> FALSE]

\* f64::from_bits(val.to_bits() ^ offset) on the mantissa of a uniform.
ScrambleOne(val, word) ==
    2 * Xor((val - 1) \div 2, word % (MantissaMask + 1), MantissaBits) + 1

Scramble(values, scr_seed, scr_draws) ==
    [j \in 1..Len(values) |->
        ScrambleOne(values[j], RandomU64(scr_seed, scr_draws + j - 1))]

\* The number of points the Sobol iterator yields before it ends, the
\* burn-in included: enough for every run of simulate of the model.
SobolLen == SobolSkip + MaxScenarios + 1

\* refresh_cache: without a next point the cache is left as it is.
SobolRefreshCache(rng, scenario_idx) ==
    LET raw == SobolPoint(rng.sobol_next, rng.dims)
    IN  IF rng.sobol_next >= SobolLen THEN rng
        ELSE [rng EXCEPT
                !.last_step = Some([time_idx |-> None,
                                    scenario_idx |-> scenario_idx,
                                    values |-> Scramble(raw, rng.scr_seed, rng.scr_draws)]),
                !.sobol_next = rng.sobol_next + 1,
                !.scr_draws = rng.scr_draws + Len(raw)]

\* The element of the cached vector read for source increment_idx at
\* time_idx, with the sources of one time step side by side.
SobolIndexSourceMajor(rng, time_idx, increment_idx) ==
    increment_idx * rng.num_increments + time_idx

\* The element of the cached vector that sample reads.
SobolIndex(rng, time_idx, increment_idx) ==
    time_idx * rng.num_increments + increment_idx

\* SobolSample taking a new point on every call.
SobolSampleAlwaysRefresh(rng, time_idx, scenario_idx, increment_idx) ==
    LET r == SobolRefreshCache(rng, scenario_idx)
    IN  [value |-> GetOrZero(r.last_step.val.values,
                             SobolIndex(rng, time_idx, increment_idx)),
         rng |-> [r EXCEPT !.calls = rng.calls + 1],
         failed |-> FALSE]

\* failed: the unwrap of an empty cache, a panic.
SobolSample(rng, time_idx, scenario_idx, increment_idx) ==
    LET is_cached == /\ IsSome(rng.last_step)
                     /\ rng.last_step.val.scenario_idx = scenario_idx
        r == IF is_cached THEN rng ELSE SobolRefreshCache(rng, scenario_idx)
    IN  IF r.last_step = None
        THEN [value |-> 0, rng |-> r, failed |-> TRUE]
        ELSE [value |-> GetOrZero(r.last_step.val.values,
                                  SobolIndex(rng, time_idx, increment_idx)),
              rng |-> [r EXCEPT !.calls = rng.calls + 1],
              failed |-> FALSE]

\* rng.sample(time_idx, scenario_idx, increment_idx) through the Rng trait.
RngSample(rng, time_idx, scenario_idx, increment_idx) ==
    IF rng.kind = "pseudo"
    THEN PseudoSample(rng, time_idx, scenario_idx, increment_idx)
    ELSE SobolSample(rng, time_idx, scenario_idx, increment_idx)

\* ------------------------------------------------------------ incrementors
\* An incrementor is [kind, idx, lambda10, last, dts]: kind is "dt", "dW" or
\* "dJ", idx the source index of the RNG, lambda10 the jump intensity in
\* tenths, last the register of the last sample, dts the step widths.
StepWidths(timesteps) ==
    [i \in 1..(Len(timesteps) - 1) |-> timesteps[i + 1] - timesteps[i]]

NewTimeIncrementor(timesteps) ==
    [kind |-> "dt", idx |-> 0, lambda10 |-> 0, last |-> None,
     dts |-> StepWidths(timesteps)]

NewWienerIncrementor(idx, timesteps) ==
    [kind |-> "dW", idx |-> idx, lambda10 |-> 0, last |-> None,
     dts |-> StepWidths(timesteps)]

NewJumpIncrementor(idx, lambda10, timesteps) ==
    [kind |-> "dJ", idx |-> idx, lambda10 |-> lambda10, last |-> None,
     dts |-> StepWidths(timesteps)]

\* The inverse normal cdf on the uniform p / UDen, rounded to an integer:
\* odd in p - 1/2 and increasing, as the rational approximation is.
\* At p = 0 the approximation is inf - inf / inf, not a number.
NaN == "NaN"

fast_inverse_normal_cdf(p) ==
    LET x == (Abs(2 * p - UDen) + 2) \div 4
    IN  IF p = 0 THEN NaN ELSE IF 2 * p < UDen THEN -x ELSE x

\* exp(lambda10 / 10) * PScale, by its power series.
RECURSIVE ExpSeries(_, _, _)
ExpSeries(lambda10, k, term) ==
    IF term = 0 THEN 0
    ELSE term + ExpSeries(lambda10, k + 1, (term * lambda10) \div (10 * (k + 1)))

\* (-lambda).exp() as a multiple of 1 / PScale.
ExpNeg(lambda10) == (PScale * PScale) \div ExpSeries(lambda10, 0, PScale)

\* PoissonWhile with the cap tested one iteration late.
PoissonWhileCapLate(u, st) == u > st.f /\ st.k <= PoissonCap

\* The condition of the while loop.
PoissonWhile(u, st) == u > st.f /\ st.k < PoissonCap

\* The body of the while loop.
PoissonBody(lambda10, st) ==
    LET Next1(p2) == [p |-> p2, f |-> st.f + p2, k |-> st.k + 1]
    IN  Next1((st.p * lambda10) \div (10 * (st.k + 1)))

\* At most n iterations of the loop from st on, by halves; a loop whose
\* condition has failed stays as it is.
RECURSIVE PoissonLoop(_, _, _, _)
PoissonLoop(u, lambda10, st, n) ==
    IF n = 0 \/ ~PoissonWhile(u, st) THEN st
    ELSE IF n = 1 THEN PoissonBody(lambda10, st)
    ELSE PoissonLoop(u, lambda10, PoissonLoop(u, lambda10, st, n \div 2), n - n \div 2)

\* The loop run until its condition fails: no run of it makes more than
\* PoissonCap + 1 iterations.
PoissonSearch(u, lambda10, p, f, k) ==
    PoissonLoop(u, lambda10, [p |-> p, f |-> f, k |-> k], PoissonCap + 1).k

\* u is a uniform numerator over UDen, lambda10 the effective intensity.
fast_inverse_poisson_cdf(u, lambda10) ==
    IF lambda10 <= 0 THEN 0
    ELSE LET p == ExpNeg(lambda10)
         IN  PoissonSearch((u * PScale) \div UDen, lambda10, p, p, 0)

\* IsLast with the register never matching.
IsLastNever(inc, time_idx, scenario_idx) == FALSE

\* IsLast comparing the scenario only.
IsLastSameScenario(inc, time_idx, scenario_idx) ==
    /\ IsSome(inc.last)
    /\ inc.last.val.scenario_idx = scenario_idx

IsLast(inc, time_idx, scenario_idx) ==
    /\ IsSome(inc.last)
    /\ inc.last.val.scenario_idx = scenario_idx
    /\ inc.last.val.time_idx = time_idx

LastValue(time_idx, scenario_idx, value) ==
    Some([time_idx |-> time_idx, scenario_idx |-> scenario_idx, value |-> value])

\* TimeSample consulting the RNG backend.
TimeSampleThroughRng(inc, time_idx, scenario_idx, rng) ==
    LET q == RngSample(rng, time_idx, scenario_idx, inc.idx)
    IN  [value |-> inc.dts[time_idx + 1] + q.value, inc |-> inc, rng |-> q.rng]

\* TimeSample returning the width of the first step at every time index.
TimeSampleFirstWidth(inc, time_idx, scenario_idx, rng) ==
    [value |-> inc.dts[1], inc |-> inc, rng |-> rng]

TimeSample(inc, time_idx, scenario_idx, rng) ==
    [value |-> inc.dts[time_idx + 1], inc |-> inc, rng |-> rng]

WienerSample(inc, time_idx, scenario_idx, rng) ==
    IF IsLast(inc, time_idx, scenario_idx)
    THEN [value |-> inc.last.val.value, inc |-> inc, rng |-> rng]
    ELSE LET q == RngSample(rng, time_idx, scenario_idx, inc.idx)
             increment == Sqrt(inc.dts[time_idx + 1]) * fast_inverse_normal_cdf(q.value)
         IN  [value |-> increment,
              inc |-> [inc EXCEPT !.last = LastValue(time_idx, scenario_idx, increment)],
              rng |-> q.rng]

JumpSample(inc, time_idx, scenario_idx, rng) ==
    IF IsLast(inc, time_idx, scenario_idx)
    THEN [value |-> inc.last.val.value, inc |-> inc, rng |-> rng]
    ELSE LET u == RngSample(rng, time_idx, scenario_idx, inc.idx)
             effective_lambda == inc.lambda10 * inc.dts[time_idx + 1]
             num_jumps == fast_inverse_poisson_cdf(u.value, effective_lambda)
         IN  [value |-> num_jumps,
              inc |-> [inc EXCEPT !.last = LastValue(time_idx, scenario_idx, num_jumps)],
              rng |-> u.rng]

\* incrementor.sample(time_idx, scenario_idx, rng) through the trait.
IncSample(inc, time_idx, scenario_idx, rng) ==
    CASE inc.kind = "dt" -> TimeSample(inc, time_idx, scenario_idx, rng)
      [] inc.kind = "dW" -> WienerSample(inc, time_idx, scenario_idx, rng)
      [] inc.kind = "dJ" -> JumpSample(inc, time_idx, scenario_idx, rng)

\* ------------------------------------------------------------ coefficients
\* A coefficient expression is [const, mult, var, tmult], the arithmetic
\* expression const + mult * var + tmult * t; var is a name, NoVar when the
\* expression names no variable.  Names are sequences of characters.
NoVar == <<>>

\* The matches of the regex X\w* among the identifiers of the expression.
all_process_names(expr) ==
    IF expr.var # NoVar /\ Head(expr.var) = "X" THEN {expr.var} ELSE {}

\* The evaluation context: the names of all_process_names the Filtration
\* has a value for.
ContextNames(expr, f) ==
    {n \in all_process_names(expr) : IndexOf(f.process_names, n) >= 0}

\* The compiled coefficient, called as coeff(f, time, time_idx, scenario_idx):
\* an identifier without a value is an evaluation error, which yields 0.0.
\* Coeff with every name of the expression bound, whatever the context holds.
CoeffAllNamesBound(expr, f, time, time_idx, scenario_idx) ==
    IF expr.var = NoVar
    THEN expr.const * Scale + expr.tmult * time * Scale
    ELSE expr.const * Scale
         + expr.mult * Get(f, scenario_idx, time_idx, IndexOf(f.process_names, expr.var))
         + expr.tmult * time * Scale

Coeff(expr, f, time, time_idx, scenario_idx) ==
    IF expr.var = NoVar
    THEN expr.const * Scale + expr.tmult * time * Scale
    ELSE IF expr.var \in ContextNames(expr, f)
    THEN expr.const * Scale
         + expr.mult * Get(f, scenario_idx, time_idx, IndexOf(f.process_names, expr.var))
         + expr.tmult * time * Scale
    ELSE 0

\* --------------------------------------------------------------- kernels
\* The kernels thread st = [f, procs, rng]: the Filtration, the processes
\* with their incrementors, and the RNG backend.  A process is
\* [name, coefficients, incrementors].

\* EulerTerms with the coefficients reading the row being written.
RECURSIVE EulerTermsNextRow(_, _, _, _, _, _)
EulerTermsNextRow(st, scenario_idx, time_idx, process_idx, inc_idx, val) ==
    LET proc == st.procs[process_idx + 1]
    IN  IF inc_idx >= Len(proc.incrementors) THEN [st |-> st, val |-> val]
        ELSE LET c == Coeff(proc.coefficients[inc_idx + 1], st.f,
                            st.f.times[time_idx + 1], time_idx + 1, scenario_idx)
                 x == IncSample(proc.incrementors[inc_idx + 1], time_idx,
                                scenario_idx, st.rng)
                 st2 == [st EXCEPT
                           !.procs[process_idx + 1].incrementors[inc_idx + 1] = x.inc,
                           !.rng = x.rng]
             IN  EulerTermsNextRow(st2, scenario_idx, time_idx, process_idx,
                                   inc_idx + 1, val + c * x.value)

RECURSIVE EulerTerms(_, _, _, _, _, _)
EulerTerms(st, scenario_idx, time_idx, process_idx, inc_idx, val) ==
    LET proc == st.procs[process_idx + 1]
    IN  IF inc_idx >= Len(proc.incrementors) THEN [st |-> st, val |-> val]
        ELSE LET c == Coeff(proc.coefficients[inc_idx + 1], st.f,
                            st.f.times[time_idx + 1], time_idx, scenario_idx)
                 x == IncSample(proc.incrementors[inc_idx + 1], time_idx,
                                scenario_idx, st.rng)
                 st2 == [st EXCEPT
                           !.procs[process_idx + 1].incrementors[inc_idx + 1] = x.inc,
                           !.rng = x.rng]
             IN  EulerTerms(st2, scenario_idx, time_idx, process_idx, inc_idx + 1,
                            val + c * x.value)

\* EulerProcesses writing its results over the row it reads.
RECURSIVE EulerProcessesInPlace(_, _, _, _)
EulerProcessesInPlace(st, scenario_idx, time_idx, process_idx) ==
    IF process_idx >= Len(st.procs) THEN st
    ELSE LET r == EulerTerms(st, scenario_idx, time_idx, process_idx, 0,
                             Get(st.f, scenario_idx, time_idx, process_idx))
         IN  EulerProcessesInPlace(
                 [r.st EXCEPT !.f = Set(r.st.f, scenario_idx, time_idx,
                                        process_idx, r.val)],
                 scenario_idx, time_idx, process_idx + 1)

RECURSIVE EulerProcesses(_, _, _, _)
EulerProcesses(st, scenario_idx, time_idx, process_idx) ==
    IF process_idx >= Len(st.procs) THEN st
    ELSE LET r == EulerTerms(st, scenario_idx, time_idx, process_idx, 0,
                             Get(st.f, scenario_idx, time_idx, process_idx))
         IN  EulerProcesses(
                 [r.st EXCEPT !.f = Set(r.st.f, scenario_idx, time_idx + 1,
                                        process_idx, r.val)],
                 scenario_idx, time_idx, process_idx + 1)

euler_iteration(f, procs, scenario_idx, time_idx, rng) ==
    EulerProcesses([f |-> f, procs |-> procs, rng |-> rng], scenario_idx, time_idx, 0)

\* Half without the factor 0.5.
HalfWhole(x) == x

\* 0.5 * x on the stored multiples of 1 / Scale.
Half(x) == x \div 2

\* One stage of the Runge-Kutta kernel for one process: the sum over its
\* terms of c * d, d shifted by sign * sk * sqrt_dt on every term but term 0;
\* the coefficients read row (ct_idx, cs_idx) of the Filtration cf.
RECURSIVE RkTerms(_, _, _, _, _, _, _, _, _)
RkTerms(st, cf, ct_idx, cs_idx, at, process_idx, inc_idx, shift, step_k) ==
    LET proc == st.procs[process_idx + 1]
    IN  IF inc_idx >= Len(proc.incrementors) THEN [st |-> st, step_k |-> step_k]
        ELSE LET c == Coeff(proc.coefficients[inc_idx + 1], cf, at.time_start,
                            ct_idx, cs_idx)
                 d == IncSample(proc.incrementors[inc_idx + 1], at.time_idx,
                                at.scenario_idx, st.rng)
                 st2 == [st EXCEPT
                           !.procs[process_idx + 1].incrementors[inc_idx + 1] = d.inc,
                           !.rng = d.rng]
             IN  RkTerms(st2, cf, ct_idx, cs_idx, at, process_idx, inc_idx + 1, shift,
                         step_k + (IF inc_idx = 0 THEN c * d.value
                                   ELSE c * (d.value + shift)))

RECURSIVE RkStage1(_, _, _, _)
RkStage1(st, at, sk_sqrt_dt, process_idx) ==
    IF process_idx >= Len(st.procs) THEN st
    ELSE LET r == RkTerms(st, st.f, at.time_idx, at.scenario_idx, at, process_idx,
                          0, -sk_sqrt_dt, 0)
         IN  RkStage1(
                 [r.st EXCEPT
                    !.scratchpad = Set(r.st.scratchpad, 0, 0, process_idx,
                                       Get(r.st.f, at.scenario_idx, at.time_idx,
                                           process_idx) + r.step_k),
                    !.k1[process_idx + 1] = r.step_k],
                 at, sk_sqrt_dt, process_idx + 1)

\* RkStage2 with the shift of stage 1.
RECURSIVE RkStage2MinusShift(_, _, _, _)
RkStage2MinusShift(st, at, sk_sqrt_dt, process_idx) ==
    IF process_idx >= Len(st.procs) THEN st
    ELSE LET r == RkTerms(st, st.scratchpad, 0, 0, at, process_idx, 0, -sk_sqrt_dt, 0)
         IN  RkStage2MinusShift([r.st EXCEPT !.k2[process_idx + 1] = r.step_k],
                                at, sk_sqrt_dt, process_idx + 1)

RECURSIVE RkStage2(_, _, _, _)
RkStage2(st, at, sk_sqrt_dt, process_idx) ==
    IF process_idx >= Len(st.procs) THEN st
    ELSE LET r == RkTerms(st, st.scratchpad, 0, 0, at, process_idx, 0, sk_sqrt_dt, 0)
         IN  RkStage2([r.st EXCEPT !.k2[process_idx + 1] = r.step_k],
                      at, sk_sqrt_dt, process_idx + 1)

RECURSIVE RkCommit(_, _, _)
RkCommit(st, at, process_idx) ==
    IF process_idx >= Len(st.procs) THEN st
    ELSE LET val == Get(st.f, at.scenario_idx, at.time_idx, process_idx)
                    + Half(st.k1[process_idx + 1] + st.k2[process_idx + 1])
         IN  RkCommit([st EXCEPT !.f = Set(st.f, at.scenario_idx, at.time_idx + 1,
                                           process_idx, val)],
                      at, process_idx + 1)

\* sk is the sign rand::random_bool(0.5) selects.
runge_kutta_iteration(f, procs, scenario_idx, time_idx, rng, scratchpad, sk) ==
    LET time_start == f.times[time_idx + 1]
        time_end == f.times[time_idx + 2]
        sqrt_dt == Sqrt(time_end - time_start)
        at == [time_start |-> time_start, time_idx |-> time_idx,
               scenario_idx |-> scenario_idx]
        st0 == [f |-> f, procs |-> procs, rng |-> rng, scratchpad |-> scratchpad,
                k1 |-> [p \in 1..Len(procs) |-> 0], k2 |-> [p \in 1..Len(procs) |-> 0]]
        st1 == RkStage1(st0, at, sk * sqrt_dt, 0)
        st2 == RkStage2(st1, at, sk * sqrt_dt, 0)
    IN  RkCommit(st2, at, 0)

\* -------------------------------------------------------------- systems
NameX == <<"X">>
NameX1 == <<"X", "1">>
NameX2 == <<"X", "2">>
NameN == <<"N">>

Expr(const, mult, var, tmult) ==
    [const |-> const, mult |-> mult, var |-> var, tmult |-> tmult]

Process(name, coefficients, incrementors) ==
    [name |-> name, coefficients |-> coefficients, incrementors |-> incrementors]

\* "drift":   dX  = (2) * dt
\* "shared":  dX1 = (0) * dt + (1) * dW1
\*            dX2 = (0) * dt + (1) * dW1
\* "coupled": dX1 = (X2) * dt + (X1) * dW1
\*            dX2 = (X1 + t) * dt + (X1) * dW1 + (1) * dJ1(0.5)
\* "jump":    dN  = (1) * dJ1(0.3)
SystemIds == {"drift", "shared", "coupled", "jump"}

System(id, ts) ==
    CASE id = "drift" ->
           << Process(NameX, << Expr(2, 0, NoVar, 0) >>, << NewTimeIncrementor(ts) >>) >>
      [] id = "shared" ->
           << Process(NameX1, << Expr(0, 0, NoVar, 0), Expr(1, 0, NoVar, 0) >>,
                      << NewTimeIncrementor(ts), NewWienerIncrementor(0, ts) >>),
              Process(NameX2, << Expr(0, 0, NoVar, 0), Expr(1, 0, NoVar, 0) >>,
                      << NewTimeIncrementor(ts), NewWienerIncrementor(0, ts) >>) >>
      [] id = "coupled" ->
           << Process(NameX1, << Expr(0, 1, NameX2, 0), Expr(0, 1, NameX1, 0) >>,
                      << NewTimeIncrementor(ts), NewWienerIncrementor(0, ts) >>),
              Process(NameX2,
                      << Expr(0, 1, NameX1, 1), Expr(0, 1, NameX1, 0), Expr(1, 0, NoVar, 0) >>,
                      << NewTimeIncrementor(ts), NewWienerIncrementor(0, ts),
                         NewJumpIncrementor(1, 5, ts) >>) >>
      [] id = "jump" ->
           << Process(NameN, << Expr(1, 0, NoVar, 0) >>,
                      << NewJumpIncrementor(0, 3, ts) >>) >>

ProcessNames(procs) == [p \in 1..Len(procs) |-> procs[p].name]

\* K: the number of distinct sources that are not dt.
SourceIndices(procs) ==
    UNION {{procs[p].incrementors[j].idx :
              j \in {j \in 1..Len(procs[p].incrementors) :
                       procs[p].incrementors[j].kind # "dt"}} :
           p \in 1..Len(procs)}

NumIncrements(procs) == Cardinality(SourceIndices(procs))

\* ------------------------------------------------------ equation compiler
\* A string is the sequence of its characters, each a one-character string;
\* the equations are ASCII, so byte indices are character indices.
Digits == {"0", "1", "2", "3", "4", "5", "6", "7", "8", "9"}
Letters ==
    {"a", "b", "c", "d", "e", "f", "g", "h", "i", "j", "k", "l", "m", "n", "o", "p",
     "q", "r", "s", "t", "u", "v", "w", "x", "y", "z", "A", "B", "C", "D", "E", "F",
     "G", "H", "I", "J", "K", "L", "M", "N", "O", "P", "Q", "R", "S", "T", "U", "V",
     "W", "X", "Y", "Z"}

\* The class [a-zA-Z0-9_] of the regexes.
WordChars == Letters \cup Digits \cup {"_"}

\* Result values: Ok(val), Err(msg) and the panic of a failed slice.
Ok(val) == [tag |-> "Ok", val |-> val]
Err(msg) == [tag |-> "Err", msg |-> msg]
Panic == [tag |-> "Panic"]

RECURSIVE TrimStart(_)
TrimStart(s) == IF s # <<>> /\ Head(s) = " " THEN TrimStart(Tail(s)) ELSE s

RECURSIVE TrimEnd(_)
TrimEnd(s) ==
    IF s # <<>> /\ s[Len(s)] = " " THEN TrimEnd(SubSeq(s, 1, Len(s) - 1)) ELSE s

\* str::trim
Trim(s) == TrimEnd(TrimStart(s))

\* The longest prefix of s made of characters of class.
RECURSIVE TakeWhile(_, _)
TakeWhile(s, class) ==
    IF s # <<>> /\ Head(s) \in class THEN <<Head(s)>> \o TakeWhile(Tail(s), class)
    ELSE <<>>

\* The 1-based position of the first c in s from position i on, 0 without one.
RECURSIVE Find(_, _, _)
Find(s, c, i) ==
    IF i > Len(s) THEN 0 ELSE IF s[i] = c THEN i ELSE Find(s, c, i + 1)

\* s[a..b] of Rust on 0-based indices, a <= b <= len.
Slice(s, a, b) == SubSeq(s, a + 1, b)

\* The capture of ^\s*d([a-zA-Z0-9_]+): None when the regex does not match.
NameOf(equation) ==
    LET s == TrimStart(equation)
    IN  IF s # <<>> /\ Head(s) = "d" /\ TakeWhile(Tail(s), WordChars) # <<>>
        THEN Some(TakeWhile(Tail(s), WordChars))
        ELSE None

\* equation.split('=').nth(1): the text between the first '=' and the next.
SplitNth1(equation) ==
    LET i == Find(equation, "=", 1)
        j == Find(equation, "=", i + 1)
    IN  IF i = 0 THEN None
        ELSE Some(SubSeq(equation, i + 1, IF j = 0 THEN Len(equation) ELSE j - 1))

\* The scan for the outer parentheses of a term: i is the 0-based index of the
\* next character; the result is (coeff_start, coeff_end).
RECURSIVE ScanCoefficient(_, _, _, _, _)
ScanCoefficient(term, i, paren_depth, coeff_start, coeff_end) ==
    IF i >= Len(term) THEN <<coeff_start, coeff_end>>
    ELSE LET ch == term[i + 1]
         IN  CASE ch = "(" ->
                    ScanCoefficient(term, i + 1, paren_depth + 1,
                                    IF paren_depth = 0 THEN i + 1 ELSE coeff_start,
                                    coeff_end)
               [] ch = ")" ->
                    IF paren_depth - 1 = 0 THEN <<coeff_start, i>>
                    ELSE ScanCoefficient(term, i + 1, paren_depth - 1, coeff_start,
                                         coeff_end)
               [] OTHER ->
                    ScanCoefficient(term, i + 1, paren_depth, coeff_start, coeff_end)

\* The least position i of rest with rest[i] = "d" and one of t, W, J next,
\* 0 without one: where the lazy ^.*? of term_re stops.
RECURSIVE FindIncrementor(_, _)
FindIncrementor(rest, i) ==
    IF i + 1 > Len(rest) THEN 0
    ELSE IF rest[i] = "d" /\ rest[i + 1] \in {"t", "W", "J"} THEN i
    ELSE FindIncrementor(rest, i + 1)

\* The captures of ^.*?(d[tWJ][a-zA-Z0-9_]*)(?:\(([^)]+)\))? on rest: the
\* term name and the optional parameter string; None without a match.
TermCaptures(rest) ==
    LET Param(after, close) ==
            IF after # <<>> /\ Head(after) = "(" /\ close > 2
            THEN Some(SubSeq(after, 2, close - 1))
            ELSE None
        Behind(term_name, after) ==
            Some([term_name |-> term_name,
                  param_str |-> Param(after, Find(after, ")", 1))])
        Named(i, term_name) ==
            Behind(term_name, SubSeq(rest, i + Len(term_name), Len(rest)))
        At(i) ==
            IF i = 0 THEN None
            ELSE Named(i, SubSeq(rest, i, i + 1)
                            \o TakeWhile(SubSeq(rest, i + 2, Len(rest)), WordChars))
    IN  At(FindIncrementor(rest, 1))

\* The expression engine's parser on literals, identifiers, the binary
\* operators and parentheses: state is "start" before the first operand,
\* "word" inside an operand, "after" behind one, "op" behind an operator.
BinaryOperators == {"+", "-", "*", "/", "^"}

RECURSIVE ExprScan(_, _, _, _)
ExprScan(e, i, state, depth) ==
    IF i > Len(e)
    THEN depth = 0 /\ state \in {"word", "after"}
    ELSE LET ch == e[i]
         IN  CASE ch \in WordChars \cup {"."} ->
                    /\ state # "after"
                    /\ ExprScan(e, i + 1, "word", depth)
               [] ch = " " ->
                    ExprScan(e, i + 1, IF state = "word" THEN "after" ELSE state, depth)
               [] ch \in BinaryOperators ->
                    /\ state \in {"word", "after"}
                    /\ ExprScan(e, i + 1, "op", depth)
               [] ch = "(" ->
                    /\ state \in {"start", "op"}
                    /\ ExprScan(e, i + 1, "start", depth + 1)
               [] ch = ")" ->
                    /\ state \in {"word", "after"}
                    /\ depth > 0
                    /\ ExprScan(e, i + 1, "after", depth - 1)
               [] OTHER -> FALSE

\* evalexpr::build_operator_tree(expression_str).is_ok(): the empty
\* expression builds the empty tree, whose value is Value::Empty.
build_operator_tree(expression_str) ==
    expression_str = <<>> \/ ExprScan(expression_str, 1, "start", 0)

\* s.parse::<f64>().ok() is some number, on strings without exponent: an
\* optional sign, then digits with at most one point.
ParsesAsF64(s) ==
    LET Unsigned(u) ==
            /\ \E i \in 1..Len(u) : u[i] \in Digits
            /\ \A i \in 1..Len(u) : u[i] \in Digits \cup {"."}
            /\ Cardinality({i \in 1..Len(u) : u[i] = "."}) <= 1
    IN  Unsigned(IF s # <<>> /\ Head(s) \in {"+", "-"} THEN Tail(s) ELSE s)

\* The incrementor of a term name: its kind, its name and its lambda string.
Incrementor(kind, name, lambda) == [kind |-> kind, name |-> name, lambda |-> lambda]

\* parse_single_term: Ok of the coefficient expression and the incrementor
\* to push, an error, or the panic of term[coeff_start..coeff_end].
parse_single_term(raw_term) ==
    LET Build(expression_str, term_name, param_str) ==
            IF term_name = <<"d", "t">>
            THEN Ok([coefficient |-> expression_str,
                     incrementor |-> Incrementor("dt", term_name, None)])
            ELSE IF SubSeq(term_name, 1, 2) = <<"d", "W">>
            THEN Ok([coefficient |-> expression_str,
                     incrementor |-> Incrementor("dW", term_name, None)])
            ELSE IF SubSeq(term_name, 1, 2) = <<"d", "J">>
            THEN IF IsSome(param_str) /\ ParsesAsF64(param_str.val)
                 THEN Ok([coefficient |-> expression_str,
                          incrementor |-> Incrementor("dJ", term_name, param_str)])
                 ELSE Err(<<"Jump term requires a numeric lambda", term_name>>)
            ELSE Err(<<"Unsupported term found in equation", term_name>>)
        Captured(expression_str, rest, caps) ==
            IF caps = None
            THEN Err(<<"Could not parse incrementor from term", rest>>)
            ELSE IF ~build_operator_tree(expression_str)
            THEN Err(<<"Failed to parse expression", expression_str>>)
            ELSE Build(expression_str, caps.val.term_name, caps.val.param_str)
        Sliced(expression_str, rest) ==
            Captured(expression_str, rest, TermCaptures(rest))
        Scanned(term, coeff_start, coeff_end) ==
            IF coeff_start > coeff_end \/ coeff_end + 1 > Len(term) THEN Panic
            ELSE Sliced(Trim(Slice(term, coeff_start, coeff_end)),
                        Trim(Slice(term, coeff_end + 1, Len(term))))
        Trimmed(term, scan) == Scanned(term, scan[1], scan[2])
        Term(term) == Trimmed(term, ScanCoefficient(term, 0, 0, 0, 0))
    IN  Term(Trim(raw_term))

\* LevyProcess::new
LevyProcessNew(name, coefficients, incrementors) ==
    IF Len(coefficients) # Len(incrementors)
    THEN Err(<<"Number of coefficients must match incrementors", <<>>>>)
    ELSE Ok(Process(name, coefficients, incrementors))

\* The pushes of one term on the two vectors of acc, or the error or panic
\* the ? operator hands on; a blank term is skipped.
PushTerm(acc, current_term) ==
    LET Push(r) ==
            IF r.tag = "Ok"
            THEN Ok([coefficients |-> Append(acc.val.coefficients, r.val.coefficient),
                     incrementors |-> Append(acc.val.incrementors, r.val.incrementor)])
            ELSE r
    IN  IF Trim(current_term) = <<>> THEN acc
        ELSE Push(parse_single_term(current_term))

\* SplitTerms ending a term at every '+', whatever the depth.
RECURSIVE SplitTermsAnyPlus(_, _, _, _, _)
SplitTermsAnyPlus(rhs, i, current_term, paren_depth, acc) ==
    IF acc.tag # "Ok" THEN acc
    ELSE IF i > Len(rhs) THEN PushTerm(acc, current_term)
    ELSE IF rhs[i] = "+"
    THEN SplitTermsAnyPlus(rhs, i + 1, <<>>, paren_depth, PushTerm(acc, current_term))
    ELSE SplitTermsAnyPlus(rhs, i + 1, Append(current_term, rhs[i]), paren_depth, acc)

\* The loop of parse_equation over the characters of rhs, from the 1-based
\* position i on, and the last term behind it.
RECURSIVE SplitTerms(_, _, _, _, _)
SplitTerms(rhs, i, current_term, paren_depth, acc) ==
    IF acc.tag # "Ok" THEN acc
    ELSE IF i > Len(rhs) THEN PushTerm(acc, current_term)
    ELSE LET ch == rhs[i]
         IN  CASE ch = "(" ->
                    SplitTerms(rhs, i + 1, Append(current_term, ch), paren_depth + 1, acc)
               [] ch = ")" ->
                    SplitTerms(rhs, i + 1, Append(current_term, ch), paren_depth - 1, acc)
               [] ch = "+" /\ paren_depth = 0 ->
                    SplitTerms(rhs, i + 1, <<>>, paren_depth, PushTerm(acc, current_term))
               [] OTHER ->
                    SplitTerms(rhs, i + 1, Append(current_term, ch), paren_depth, acc)

parse_equation(equation) ==
    LET Make(name, terms) ==
            IF terms.tag # "Ok" THEN terms
            ELSE LevyProcessNew(name, terms.val.coefficients, terms.val.incrementors)
        Split(name, rhs) ==
            IF rhs = None THEN Err(<<"No '=' found in equation", <<>>>>)
            ELSE Make(name.val,
                      SplitTerms(Trim(rhs.val), 1, <<>>, 0,
                                 Ok([coefficients |-> <<>>, incrementors |-> <<>>])))
        Named(name) ==
            IF name = None
            THEN Err(<<"Could not parse process name from equation", <<>>>>)
            ELSE Split(name, SplitNth1(equation))
    IN  Named(NameOf(equation))

\* The loop of parse_equations from equation i on.
RECURSIVE ParseLoop(_, _, _)
ParseLoop(eqs, i, procs) ==
    LET Step(process) ==
            IF process.tag # "Ok" THEN process
            ELSE ParseLoop(eqs, i + 1, Append(procs, process.val))
    IN  IF i > Len(eqs) THEN Ok(procs) ELSE Step(parse_equation(eqs[i]))

parse_equations(eqs) ==
    IF eqs = <<>> THEN Err(<<"No equations provided to parse", <<>>>>)
    ELSE ParseLoop(eqs, 1, <<>>)

\* The equations the compiler is run on, well-formed and malformed, by name.
\*   Drift:         dX = (2) * dt
\*   Wiener:        dX1 = (0) * dt + (1) * dW1
\*   Jump:          dN = (1) * dJ1(0.3)
\*   Sum:           dX2 = (X1 + t) * dt
\*   NoEquals:      dX (2) * dt
\*   BadExpr:       dX = (2 *) * dt
\*   OpenParen:     dX = (2 * dt
\*   NoParens:      dX = 2 * dt
\*   NoLambda:      dN = (1) * dJ1
\*   BadLambda:     dN = (1) * dJ1(x)
\*   NoIncrementor: dX = (1) * dZ
\*   Unsupported:   dX = (1) * dtx
\*   NoTerms:       dX =
\*   NoName:        X = (2) * dt
\*   NestedPlus:    dX = ((X + 1) + t) * dt + (1) * dW1
\*   JumpPlus:      dN = (1) * dJ1(+0.3) + (1) * dt
\*   BlankTerms:    dX = + (2) * dt + + (1) * dW1 +
\*   StrayClose:    dX = (1) * dt) + (2) * dW1
Equation(id) ==
    CASE id = "Drift" ->
           <<"d", "X", " ", "=", " ", "(", "2", ")", " ", "*", " ", "d", "t">>
      [] id = "Wiener" ->
           <<"d", "X", "1", " ", "=", " ", "(", "0", ")", " ", "*", " ", "d", "t", " ", "+",
             " ", "(", "1", ")", " ", "*", " ", "d", "W", "1">>
      [] id = "Jump" ->
           <<"d", "N", " ", "=", " ", "(", "1", ")", " ", "*", " ", "d", "J", "1", "(", "0",
             ".", "3", ")">>
      [] id = "Sum" ->
           <<"d", "X", "2", " ", "=", " ", "(", "X", "1", " ", "+", " ", "t", ")", " ", "*",
             " ", "d", "t">>
      [] id = "NoEquals" ->
           <<"d", "X", " ", "(", "2", ")", " ", "*", " ", "d", "t">>
      [] id = "BadExpr" ->
           <<"d", "X", " ", "=", " ", "(", "2", " ", "*", ")", " ", "*", " ", "d", "t">>
      [] id = "OpenParen" ->
           <<"d", "X", " ", "=", " ", "(", "2", " ", "*", " ", "d", "t">>
      [] id = "NoParens" ->
           <<"d", "X", " ", "=", " ", "2", " ", "*", " ", "d", "t">>
      [] id = "NoLambda" ->
           <<"d", "N", " ", "=", " ", "(", "1", ")", " ", "*", " ", "d", "J", "1">>
      [] id = "BadLambda" ->
           <<"d", "N", " ", "=", " ", "(", "1", ")", " ", "*", " ", "d", "J", "1", "(", "x",
             ")">>
      [] id = "NoIncrementor" ->
           <<"d", "X", " ", "=", " ", "(", "1", ")", " ", "*", " ", "d", "Z">>
      [] id = "Unsupported" ->
           <<"d", "X", " ", "=", " ", "(", "1", ")", " ", "*", " ", "d", "t", "x">>
      [] id = "NoTerms" ->
           <<"d", "X", " ", "=">>
      [] id = "NoName" ->
           <<"X", " ", "=", " ", "(", "2", ")", " ", "*", " ", "d", "t">>
      [] id = "NestedPlus" ->
           <<"d", "X", " ", "=", " ", "(", "(", "X", " ", "+", " ", "1", ")", " ", "+",
             " ", "t", ")", " ", "*", " ", "d", "t", " ", "+", " ", "(", "1", ")", " ",
             "*", " ", "d", "W", "1">>
      [] id = "JumpPlus" ->
           <<"d", "N", " ", "=", " ", "(", "1", ")", " ", "*", " ", "d", "J", "1", "(",
             "+", "0", ".", "3", ")", " ", "+", " ", "(", "1", ")", " ", "*", " ", "d",
             "t">>
      [] id = "BlankTerms" ->
           <<"d", "X", " ", "=", " ", "+", " ", "(", "2", ")", " ", "*", " ", "d", "t",
             " ", "+", " ", "+", " ", "(", "1", ")", " ", "*", " ", "d", "W", "1", " ",
             "+">>
      [] id = "StrayClose" ->
           <<"d", "X", " ", "=", " ", "(", "1", ")", " ", "*", " ", "d", "t", ")", " ",
             "+", " ", "(", "2", ")", " ", "*", " ", "d", "W", "1">>

EquationIds ==
    {"Drift", "Wiener", "Jump", "Sum", "NoEquals",
     "BadExpr", "OpenParen", "NoParens", "NoLambda", "BadLambda",
     "NoIncrementor", "Unsupported", "NoTerms", "NoName",
     "NestedPlus", "JumpPlus", "BlankTerms", "StrayClose"}

SampleEquations == {Equation(id) : id \in EquationIds}

\* ---------------------------------------------------------------- inputs
StepWidthChoices == {1, 4}

RECURSIVE GridFrom(_, _)
GridFrom(widths, n) ==
    IF n = 0 THEN <<0>>
    ELSE LET g == GridFrom(widths, n - 1) IN Append(g, g[n] + widths[n])

\* The strictly increasing time grids of 2..MaxTimes times whose step widths
\* never shrink.
TimeGrids ==
    UNION {{GridFrom(w, n) :
              w \in {v \in [1..n -> StepWidthChoices] :
                       \A i \in 1..(n - 1) : v[i] <= v[i + 1]}} : n \in 1..(MaxTimes - 1)}

\* The scenario labels 1..=scenarios of the callers.
ScenarioLabels(n) == [i \in 1..n |-> i]

InitialMaps ==
    {None,
     Some([n \in {NameX1} |-> 1]),
     Some([n \in {NameX, NameX1, NameX2, NameN} |->
             CASE n = NameX -> 3 [] n = NameX1 -> 1 [] n = NameX2 -> 1 [] n = NameN -> 2])}

Schemes == {"euler", "runge-kutta"}
Seeds == {1, 2}

RngChoices(num_increments, num_timesteps) ==
    {NewPseudoRng(num_increments, seed) : seed \in Seeds}
    \cup {NewSobolRng(num_increments, num_timesteps, seed) : seed \in Seeds}

\* A buffer on the heap: what it is bound to, its length, and the step it
\* was created in, 0 for one created by simulate before its loops.
Buffer(name, len, step) == [name |-> name, len |-> len, step |-> step]

\* ----------------------------------------------------------------- state
VARIABLES
    filtration,      \* the main Filtration
    processes,       \* the processes with their incrementors
    rng,             \* the RNG backend
    rk_scratchpad,   \* the scratchpad of simulate, None until it is built
    k1, k2,          \* the stage vectors of the last Runge-Kutta step
    sk,              \* the sign of the last Runge-Kutta step, 0 before it
    buffers,         \* the buffers created since simulate was entered, in order
    scheme,          \* the scheme simulate is called with
    initial_values,  \* the initial-value map the Filtration was built with
    pc,              \* "ready", "loop" or "done": where simulate is
    scenario_idx,    \* the loop variables of simulate
    time_idx,
    steps,           \* the (scenario_idx, time_idx) of the steps run, in order
    before,          \* the Filtration as the last step found it
    df,              \* the last materialised record list, None before it
    sample_log,      \* the direct calls of Incrementor::sample, with their results
    first_run,       \* what a caller kept of an earlier run of simulate, None without one
    equations,       \* the equation strings handed to the compiler
    compiled         \* what the last call of the compiler returned, None before it

vars == <<filtration, processes, rng, rk_scratchpad, k1, k2, sk, buffers, scheme,
          initial_values, pc, scenario_idx, time_idx, steps, before, df, sample_log,
          first_run, equations, compiled>>

Init ==
    \E ts \in TimeGrids, n \in 1..MaxScenarios, id \in SystemIds,
       values \in InitialMaps, sch \in Schemes :
      LET procs == System(id, ts) IN
      \E r \in RngChoices(NumIncrements(procs), Len(ts)) :
        /\ filtration = [NewFiltration(ts, ScenarioLabels(n), ProcessNames(procs),
                                       values) EXCEPT !.log = <<>>]
        /\ processes = procs
        /\ rng = r
        /\ rk_scratchpad = None
        /\ k1 = <<>>
        /\ k2 = <<>>
        /\ sk = 0
        /\ buffers = <<>>
        /\ scheme = sch
        /\ initial_values = values
        /\ pc = "ready"
        /\ scenario_idx = 0
        /\ time_idx = 0
        /\ steps = <<>>
        /\ before = None
        /\ df = None
        /\ sample_log = <<>>
        /\ first_run = None
        /\ equations = <<>>
        /\ compiled = None

\* --------------------------------------------------------------- simulate
num_scenarios == Len(filtration.scenarios)
num_time_deltas == Len(filtration.times) - 1

\* simulate up to its loops: the scratchpad is built for "runge-kutta".
SimulateEnter ==
    /\ pc = "ready"
    /\ UNCHANGED <<sample_log, first_run, equations, compiled>>
    /\ pc' = "loop"
    /\ rk_scratchpad' =
         IF scheme = "runge-kutta"
         THEN Some(NewFiltration(<<0>>, <<0>>, filtration.process_names, None))
         ELSE None
    /\ scenario_idx' = 0
    /\ time_idx' = 0
    /\ buffers' =
         IF scheme = "runge-kutta"
         THEN << Buffer("rk_scratchpad", Len(filtration.process_names), 0) >>
         ELSE <<>>
    /\ UNCHANGED <<filtration, processes, rng, k1, k2, sk, scheme, initial_values, steps,
                   before, df>>

\* LoopNext with the time loop outside the scenario loop.
LoopNextTimeOuter ==
    IF scenario_idx + 1 < num_scenarios
    THEN scenario_idx' = scenario_idx + 1 /\ time_idx' = time_idx
    ELSE IF time_idx + 1 < num_time_deltas
    THEN scenario_idx' = 0 /\ time_idx' = time_idx + 1
    ELSE scenario_idx' = num_scenarios /\ time_idx' = 0

\* The two for loops: the next (scenario_idx, time_idx).
LoopNext ==
    IF time_idx + 1 < num_time_deltas
    THEN scenario_idx' = scenario_idx /\ time_idx' = time_idx + 1
    ELSE scenario_idx' = scenario_idx + 1 /\ time_idx' = 0

InLoop ==
    /\ pc = "loop"
    /\ scenario_idx < num_scenarios
    /\ time_idx < num_time_deltas

EulerStep ==
    /\ InLoop
    /\ UNCHANGED <<sample_log, first_run, equations, compiled>>
    /\ scheme = "euler"
    /\ \E st \in {euler_iteration(filtration, processes, scenario_idx, time_idx, rng)} :
           /\ filtration' = st.f
           /\ processes' = st.procs
           /\ rng' = st.rng
    /\ steps' = Append(steps, <<scenario_idx, time_idx>>)
    /\ before' = Some(filtration)
    /\ LoopNext
    /\ UNCHANGED <<rk_scratchpad, k1, k2, sk, buffers, scheme, initial_values, pc, df>>

RungeKuttaStep ==
    /\ InLoop
    /\ UNCHANGED <<sample_log, first_run, equations, compiled>>
    /\ scheme = "runge-kutta"
    /\ \E sign \in {1, -1} :
         \E st \in {runge_kutta_iteration(filtration, processes, scenario_idx,
                                          time_idx, rng, rk_scratchpad.val, sign)} :
             /\ filtration' = st.f
             /\ processes' = st.procs
             /\ rng' = st.rng
             /\ rk_scratchpad' = Some(st.scratchpad)
             /\ k1' = st.k1
             /\ k2' = st.k2
             /\ sk' = sign
             /\ buffers' = buffers \o << Buffer("k1", Len(st.k1), Len(steps) + 1),
                                         Buffer("k2", Len(st.k2), Len(steps) + 1) >>
    /\ steps' = Append(steps, <<scenario_idx, time_idx>>)
    /\ before' = Some(filtration)
    /\ LoopNext
    /\ UNCHANGED <<scheme, initial_values, pc, df>>

\* The loops are over: no scenario is left, or the time loop is empty.
SimulateReturn ==
    /\ pc = "loop"
    /\ UNCHANGED <<sample_log, first_run, equations, compiled>>
    /\ scenario_idx >= num_scenarios \/ num_time_deltas <= 0
    /\ pc' = "done"
    /\ UNCHANGED <<filtration, processes, rng, rk_scratchpad, k1, k2, sk, buffers, scheme,
                   initial_values, scenario_idx, time_idx, steps, before, df>>

\* filtration.to_dataframe(), called as the callers do, after simulate.
ToDataframe ==
    /\ pc = "done"
    /\ UNCHANGED <<sample_log, first_run, equations, compiled>>
    /\ df' = Some(to_dataframe(filtration))
    /\ UNCHANGED <<filtration, processes, rng, rk_scratchpad, k1, k2, sk, buffers, scheme,
                   initial_values, pc, scenario_idx, time_idx, steps, before>>

Next ==
    \/ SimulateEnter
    \/ EulerStep
    \/ RungeKuttaStep
    \/ SimulateReturn
    \/ ToDataframe

Spec == Init /\ [][Next]_vars

\* ------------------------------------------------- Incrementor::sample alone
\* A caller holding the incrementors of a system and an RNG, calling sample
\* of a Wiener or jump incrementor directly, at most MaxCalls times.
MaxCalls == 3

SampleGrid == <<0, 1, 5>>

InitSample ==
    \E id \in SystemIds \ {"drift"} :
      LET procs == System(id, SampleGrid) IN
      \E r \in RngChoices(NumIncrements(procs), Len(SampleGrid)) :
        /\ filtration = [NewFiltration(SampleGrid, ScenarioLabels(MaxScenarios),
                                       ProcessNames(procs), None) EXCEPT !.log = <<>>]
        /\ processes = procs
        /\ rng = r
        /\ rk_scratchpad = None
        /\ k1 = <<>>
        /\ k2 = <<>>
        /\ sk = 0
        /\ buffers = <<>>
        /\ scheme = "euler"
        /\ initial_values = None
        /\ pc = "ready"
        /\ scenario_idx = 0
        /\ time_idx = 0
        /\ steps = <<>>
        /\ before = None
        /\ df = None
        /\ sample_log = <<>>
        /\ first_run = None
        /\ equations = <<>>
        /\ compiled = None

SampleCall(kind) ==
    /\ Len(sample_log) < MaxCalls
    /\ \E p \in 1..Len(processes), j \in 1..3,
          t \in 0..(num_time_deltas - 1), s \in 0..(num_scenarios - 1) :
         /\ j <= Len(processes[p].incrementors)
         /\ processes[p].incrementors[j].kind = kind
         /\ LET x == IncSample(processes[p].incrementors[j], t, s, rng)
            IN  /\ processes' = [processes EXCEPT ![p].incrementors[j] = x.inc]
                /\ rng' = x.rng
                /\ sample_log' = Append(sample_log,
                                        [process |-> p, term |-> j, time_idx |-> t,
                                         scenario_idx |-> s, value |-> x.value])
    /\ UNCHANGED <<filtration, rk_scratchpad, k1, k2, sk, buffers, scheme, initial_values, pc,
                   scenario_idx, time_idx, steps, before, df, first_run,
                   equations, compiled>>

WienerSampleCall == SampleCall("dW")
JumpSampleCall == SampleCall("dJ")

NextSample ==
    \/ WienerSampleCall
    \/ JumpSampleCall

SpecSample == InitSample /\ [][NextSample]_vars

\* ----------------------------------------------------------- Rng::sample alone
\* A caller holding a backend of K sources for the time grid SampleGrid and
\* calling rng.sample directly, at most MaxCalls times, with time indices up
\* to one past the last step and source indices up to K. The Sobol backends
\* are new ones and ones whose iterator has one point left, the point before
\* it taken for scenario 1.
RngBackends ==
    UNION {{NewPseudoRng(k, 1)} \cup
           (IF k = 0 THEN {}
            ELSE {NewSobolRng(k, Len(SampleGrid), 1),
                  SobolRefreshCache([NewSobolRng(k, Len(SampleGrid), 1)
                                       EXCEPT !.sobol_next = SobolLen - 2], 1)}) :
           k \in 0..2}

InitRng ==
    \E r \in RngBackends :
        /\ filtration = [NewFiltration(SampleGrid, ScenarioLabels(2), <<NameX>>, None)
                           EXCEPT !.log = <<>>]
        /\ processes = <<>>
        /\ rng = r
        /\ rk_scratchpad = None
        /\ k1 = <<>>
        /\ k2 = <<>>
        /\ sk = 0
        /\ buffers = <<>>
        /\ scheme = "euler"
        /\ initial_values = None
        /\ pc = "ready"
        /\ scenario_idx = 0
        /\ time_idx = 0
        /\ steps = <<>>
        /\ before = None
        /\ df = None
        /\ sample_log = <<>>
        /\ first_run = None
        /\ equations = <<>>
        /\ compiled = None

\* One call of rng.sample; the log keeps its arguments, its result, the
\* element of the cache it read and the backend before it. A failed call
\* ends the caller.
RngSampleCall ==
    /\ pc = "ready"
    /\ Len(sample_log) < MaxCalls
    /\ \E t \in 0..num_time_deltas, s \in 0..(num_scenarios - 1),
          i \in 0..rng.num_increments :
         \E q \in {RngSample(rng, t, s, i)} :
            /\ rng' = q.rng
            /\ sample_log' =
                 Append(sample_log,
                        [time_idx |-> t, scenario_idx |-> s, increment_idx |-> i,
                         value |-> q.value, failed |-> q.failed,
                         read |-> IF rng.kind = "sobol" THEN SobolIndex(rng, t, i) ELSE i,
                         rng_before |-> rng])
            /\ pc' = IF q.failed THEN "panicked" ELSE pc
    /\ UNCHANGED <<filtration, processes, rk_scratchpad, k1, k2, sk, buffers, scheme,
                   initial_values, scenario_idx, time_idx, steps, before, df,
                   first_run, equations, compiled>>

NextRng == RngSampleCall

SpecRng == InitRng /\ [][NextRng]_vars

\* ------------------------------------------- the inverse Poisson search alone
\* A jump incrementor of intensity lambda10 / 10 sampled once for each step
\* of PoissonGrid, the backend handing it any uniform numerator 0..UDen; the
\* intensities are negative, zero, small, and so large that exp(-lambda)
\* is 0 in the arithmetic of the model.
PoissonGrid == <<0, 1, 2>>
PoissonLambdas == {-5, 0, 3, 20, 50, 95}

InitPoisson ==
    \E lambda10 \in PoissonLambdas :
        /\ filtration = [NewFiltration(PoissonGrid, ScenarioLabels(1), <<NameN>>, None)
                           EXCEPT !.log = <<>>]
        /\ processes = << Process(NameN, << Expr(1, 0, NoVar, 0) >>,
                                  << NewJumpIncrementor(0, lambda10, PoissonGrid) >>) >>
        /\ rng = NewPseudoRng(1, 1)
        /\ rk_scratchpad = None
        /\ k1 = <<>>
        /\ k2 = <<>>
        /\ sk = 0
        /\ buffers = <<>>
        /\ scheme = "euler"
        /\ initial_values = None
        /\ pc = "ready"
        /\ scenario_idx = 0
        /\ time_idx = 0
        /\ steps = <<>>
        /\ before = None
        /\ df = None
        /\ sample_log = <<>>
        /\ first_run = None
        /\ equations = <<>>
        /\ compiled = None

\* The miss path of JumpIncrementor::sample for the next time index, on the
\* uniform u.
PoissonCall ==
    /\ Len(sample_log) < num_time_deltas
    /\ \E u \in 0..UDen :
         \E inc \in {processes[1].incrementors[1]}, t \in {Len(sample_log)} :
            \E num_jumps \in {fast_inverse_poisson_cdf(u, inc.lambda10 * inc.dts[t + 1])} :
               /\ processes' = [processes EXCEPT
                                  ![1].incrementors[1].last = LastValue(t, 0, num_jumps)]
               /\ sample_log' = Append(sample_log,
                                       [time_idx |-> t, u |-> u,
                                        effective_lambda |-> inc.lambda10 * inc.dts[t + 1],
                                        value |-> num_jumps])
    /\ UNCHANGED <<filtration, rng, rk_scratchpad, k1, k2, sk, buffers, scheme, initial_values,
                   pc, scenario_idx, time_idx, steps, before, df, first_run,
                   equations, compiled>>

NextPoisson == PoissonCall

SpecPoisson == InitPoisson /\ [][NextPoisson]_vars

\* --------------------------------------------------- simulate, called twice
\* A caller that runs simulate, keeps the tensor, and runs simulate again on
\* the same equations, time grid, scenarios and initial values.

\* The incrementors the compiler builds for the same equations: the registers
\* empty.
FreshProcesses(procs) ==
    [p \in 1..Len(procs) |->
        [procs[p] EXCEPT !.incrementors =
            [j \in 1..Len(procs[p].incrementors) |->
                [procs[p].incrementors[j] EXCEPT !.last = None]]]]

\* The backend constructed again with the seed of r.
FreshRng(r, num_timesteps) ==
    IF r.kind = "pseudo" THEN NewPseudoRng(r.num_increments, r.seed)
    ELSE NewSobolRng(r.num_increments, num_timesteps, r.scr_seed)

RunAgain(schemes, rngs) ==
    /\ pc = "done"
    /\ first_run = None
    /\ first_run' = Some([raw_values |-> filtration.raw_values, scheme |-> scheme,
                          rng |-> FreshRng(rng, NumTimes(filtration))])
    /\ \E sch \in schemes, r \in rngs :
         /\ scheme' = sch
         /\ rng' = r
    /\ filtration' = [NewFiltration(filtration.times, filtration.scenarios,
                                    filtration.process_names, initial_values)
                        EXCEPT !.log = <<>>]
    /\ processes' = FreshProcesses(processes)
    /\ rk_scratchpad' = None
    /\ k1' = <<>>
    /\ k2' = <<>>
    /\ sk' = 0
    /\ buffers' = <<>>
    /\ pc' = "ready"
    /\ scenario_idx' = 0
    /\ time_idx' = 0
    /\ steps' = <<>>
    /\ before' = None
    /\ UNCHANGED <<initial_values, df, sample_log, equations, compiled>>

\* The systems with dt terms only.
\* "drift":  dX  = (2) * dt
\* "drift2": dX1 = (1) * dt
\*           dX2 = (3) * dt
\* "growth": dX  = (2 * X) * dt
\* "own":    dN  = (N) * dt
DriftIds == {"drift", "drift2", "growth", "own"}

DriftSystem(id, ts) ==
    CASE id = "drift" -> System("drift", ts)
      [] id = "drift2" ->
           << Process(NameX1, << Expr(1, 0, NoVar, 0) >>, << NewTimeIncrementor(ts) >>),
              Process(NameX2, << Expr(3, 0, NoVar, 0) >>, << NewTimeIncrementor(ts) >>) >>
      [] id = "growth" ->
           << Process(NameX, << Expr(0, 2, NameX, 0) >>, << NewTimeIncrementor(ts) >>) >>
      [] id = "own" ->
           << Process(NameN, << Expr(0, 1, NameN, 0) >>, << NewTimeIncrementor(ts) >>) >>

DriftGrid == <<0, 1, 2, 3, 4, 5>>
DriftGrids == {DriftGrid, <<0, 1, 5>>, <<0, 4>>}

InitDrift ==
    \E ts \in DriftGrids, n \in 1..MaxScenarios, id \in DriftIds,
       values \in InitialMaps, sch \in Schemes :
      LET procs == DriftSystem(id, ts) IN
      \E r \in RngChoices(NumIncrements(procs), Len(ts)) :
        /\ filtration = [NewFiltration(ts, ScenarioLabels(n), ProcessNames(procs),
                                       values) EXCEPT !.log = <<>>]
        /\ processes = procs
        /\ rng = r
        /\ rk_scratchpad = None
        /\ k1 = <<>>
        /\ k2 = <<>>
        /\ sk = 0
        /\ buffers = <<>>
        /\ scheme = sch
        /\ initial_values = values
        /\ pc = "ready"
        /\ scenario_idx = 0
        /\ time_idx = 0
        /\ steps = <<>>
        /\ before = None
        /\ df = None
        /\ sample_log = <<>>
        /\ first_run = None
        /\ equations = <<>>
        /\ compiled = None

\* The second run with any scheme and any backend.
RunAgainAny ==
    RunAgain(Schemes, RngChoices(NumIncrements(processes), NumTimes(filtration)))

NextDrift ==
    \/ SimulateEnter
    \/ EulerStep
    \/ RungeKuttaStep
    \/ SimulateReturn
    \/ RunAgainAny

SpecDrift == InitDrift /\ [][NextDrift]_vars

\* The systems with a Wiener or jump term, run twice with the Sobol backend:
\* the second run has the scheme of the first and a backend constructed with
\* the same skip and the same scrambler seed.
InitRepeat ==
    \E ts \in TimeGrids, n \in 1..MaxScenarios, id \in SystemIds \ {"drift"},
       sch \in Schemes, seed \in Seeds :
      LET procs == System(id, ts) IN
        /\ filtration = [NewFiltration(ts, ScenarioLabels(n), ProcessNames(procs),
                                       Some([nm \in {NameX1, NameX2} |-> 1]))
                           EXCEPT !.log = <<>>]
        /\ processes = procs
        /\ rng = NewSobolRng(NumIncrements(procs), Len(ts), seed)
        /\ rk_scratchpad = None
        /\ k1 = <<>>
        /\ k2 = <<>>
        /\ sk = 0
        /\ buffers = <<>>
        /\ scheme = sch
        /\ initial_values = Some([nm \in {NameX1, NameX2} |-> 1])
        /\ pc = "ready"
        /\ scenario_idx = 0
        /\ time_idx = 0
        /\ steps = <<>>
        /\ before = None
        /\ df = None
        /\ sample_log = <<>>
        /\ first_run = None
        /\ equations = <<>>
        /\ compiled = None

RunAgainSame == RunAgain({scheme}, {FreshRng(rng, NumTimes(filtration))})

NextRepeat ==
    \/ SimulateEnter
    \/ EulerStep
    \/ RungeKuttaStep
    \/ SimulateReturn
    \/ RunAgainSame

SpecRepeat == InitRepeat /\ [][NextRepeat]_vars

\* ------------------------------------------------------ the compiler alone
\* A caller handing up to MaxEquations equation strings to parse_equations,
\* or lists of coefficients and incrementors to LevyProcess::new.
MaxEquations == 2

EquationLists ==
    UNION {[1..n -> SampleEquations] : n \in 0..MaxEquations}

InitParse ==
    \E eqs \in EquationLists :
        /\ equations = eqs
        /\ compiled = None
        /\ filtration = [NewFiltration(<<0, 1>>, ScenarioLabels(1), <<NameX>>, None)
                           EXCEPT !.log = <<>>]
        /\ processes = <<>>
        /\ rng = NewPseudoRng(0, 1)
        /\ rk_scratchpad = None
        /\ k1 = <<>>
        /\ k2 = <<>>
        /\ sk = 0
        /\ buffers = <<>>
        /\ scheme = "euler"
        /\ initial_values = None
        /\ pc = "ready"
        /\ scenario_idx = 0
        /\ time_idx = 0
        /\ steps = <<>>
        /\ before = None
        /\ df = None
        /\ sample_log = <<>>
        /\ first_run = None

ParseEquations ==
    /\ pc = "ready"
    /\ compiled = None
    /\ compiled' = Some(parse_equations(equations))
    /\ pc' = "parsed"
    /\ UNCHANGED <<filtration, processes, rng, rk_scratchpad, k1, k2, sk, buffers, scheme,
                   initial_values, scenario_idx, time_idx, steps, before, df,
                   sample_log, first_run, equations>>

\* The incrementors and coefficient expressions a direct caller passes.
DirectIncrementors ==
    {Incrementor("dt", <<"d", "t">>, None),
     Incrementor("dW", <<"d", "W", "1">>, None)}

DirectLists(elems) == UNION {[1..n -> elems] : n \in 0..MaxEquations}

\* LevyProcess::new called directly; compiled holds Ok of the one process or
\* the error.
NewLevyProcess ==
    /\ pc = "ready"
    /\ compiled = None
    /\ equations = <<>>
    /\ \E coefficients \in DirectLists({<<"1">>}),
          incrementors \in DirectLists(DirectIncrementors) :
         \E r \in {LevyProcessNew(NameX, coefficients, incrementors)} :
            compiled' = Some(IF r.tag = "Ok" THEN Ok(<<r.val>>) ELSE r)
    /\ pc' = "built"
    /\ UNCHANGED <<filtration, processes, rng, rk_scratchpad, k1, k2, sk, buffers, scheme,
                   initial_values, scenario_idx, time_idx, steps, before, df,
                   sample_log, first_run, equations>>

\* The names handed to the backend: the name of every incrementor of every
\* process, in order.
RECURSIVE increment_names(_)
increment_names(procs) ==
    IF procs = <<>> THEN <<>>
    ELSE [j \in 1..Len(Head(procs).incrementors) |-> Head(procs).incrementors[j].name]
         \o increment_names(Tail(procs))

\* The caller of the compiler setting up the backend for the compiled
\* processes: a backend of as many increments as names.
NewRng ==
    /\ pc = "parsed"
    /\ compiled.val.tag = "Ok"
    /\ \E names \in {increment_names(compiled.val.val)} :
         \E r \in RngChoices(Len(names), NumTimes(filtration)) :
            /\ r.kind = "sobol" => names # <<>>
            /\ rng' = r
    /\ pc' = "registered"
    /\ UNCHANGED <<filtration, processes, rk_scratchpad, k1, k2, sk, buffers, scheme,
                   initial_values, scenario_idx, time_idx, steps, before, df,
                   sample_log, first_run, equations, compiled>>

NextParse ==
    \/ ParseEquations
    \/ NewLevyProcess
    \/ NewRng

SpecParse == InitParse /\ [][NextParse]_vars

\* ------------------------------------------------ simulate, unknown scheme
\* simulate called with a scheme string that is neither "euler" nor
\* "runge-kutta", on Filtrations of 0..MaxScenarios scenarios and
\* 1..MaxTimes times.
UnknownSchemes == {"milstein", ""}

InitScheme ==
    \E ts \in TimeGrids \cup {<<0>>}, n \in 0..MaxScenarios, id \in SystemIds,
       values \in InitialMaps, sch \in UnknownSchemes :
      LET procs == System(id, ts) IN
      \E r \in RngChoices(NumIncrements(procs), Len(ts)) :
        /\ filtration = [NewFiltration(ts, ScenarioLabels(n), ProcessNames(procs),
                                       values) EXCEPT !.log = <<>>]
        /\ processes = procs
        /\ rng = r
        /\ rk_scratchpad = None
        /\ k1 = <<>>
        /\ k2 = <<>>
        /\ sk = 0
        /\ buffers = <<>>
        /\ scheme = sch
        /\ initial_values = values
        /\ pc = "ready"
        /\ scenario_idx = 0
        /\ time_idx = 0
        /\ steps = <<>>
        /\ before = None
        /\ df = None
        /\ sample_log = <<>>
        /\ first_run = None
        /\ equations = <<>>
        /\ compiled = None

\* The arm _ => panic!("Unknown scheme") of the match in the loop body.
UnknownSchemePanic ==
    /\ InLoop
    /\ scheme \notin Schemes
    /\ pc' = "panicked"
    /\ UNCHANGED <<filtration, processes, rng, rk_scratchpad, k1, k2, sk, buffers, scheme,
                   initial_values, scenario_idx, time_idx, steps, before, df,
                   sample_log, first_run, equations, compiled>>

NextScheme ==
    \/ SimulateEnter
    \/ UnknownSchemePanic
    \/ SimulateReturn

SpecScheme == InitScheme /\ [][NextScheme]_vars

\* ================================================================ claims
\* The (scenario_idx, time_idx) of the last step run.
LastScenario == steps[Len(steps)][1]
LastTime == steps[Len(steps)][2]
Stepped == steps # <<>>

\* The increment an incrementor delivered in the step at time_idx, read
\* from its register after the step.
IncrementOf(inc, t_idx) ==
    IF inc.kind = "dt" THEN inc.dts[t_idx + 1] ELSE inc.last.val.value

AllCells(f) ==
    (0..(NumTimes(f) - 1)) \X (0..(NumScenarios(f) - 1)) \X (0..(NumProcesses(f) - 1))

\* Sum over the terms j..n of process p of c * d, the coefficients read
\* from row (t_idx, s_idx) of cf at time at, d the increment of the last step.
RECURSIVE EulerSum(_, _, _, _, _, _)
EulerSum(p, j, cf, at, t_idx, s_idx) ==
    IF j > Len(processes[p].incrementors) THEN 0
    ELSE Coeff(processes[p].coefficients[j], cf, at, t_idx, s_idx)
           * IncrementOf(processes[p].incrementors[j], LastTime)
         + EulerSum(p, j + 1, cf, at, t_idx, s_idx)

\* C1: after an Euler step for (s, i), the value of every process p in row
\* (s, i+1) is its value in row (s, i) plus the sum of c * x with every
\* coefficient c evaluated on row (s, i) as the step found it: nothing
\* written to row (s, i+1) during the step enters any coefficient.
C1_EulerReadsSnapshot ==
    (scheme = "euler" /\ Stepped) =>
        \A p \in 1..Len(processes) :
            Get(filtration, LastScenario, LastTime + 1, p - 1)
              = Get(before.val, LastScenario, LastTime, p - 1)
                + EulerSum(p, 1, before.val, before.val.times[LastTime + 1],
                           LastTime, LastScenario)

\* An Euler step of a coupled system in which the first process has moved and
\* the second process reads it.
C1_Witness ==
    /\ scheme = "euler"
    /\ Stepped
    /\ Len(processes) = 2
    /\ processes[2].coefficients[1].var = processes[1].name
    /\ Get(filtration, LastScenario, LastTime + 1, 0)
         # Get(filtration, LastScenario, LastTime, 0)
    /\ Get(filtration, LastScenario, LastTime + 1, 1)
         # Get(filtration, LastScenario, LastTime, 1)

\* C2: a step for (s, i), Euler or Runge-Kutta, leaves every cell of the main
\* Filtration outside row (s, i+1) as it was, and the shape of the tensor too.
C2_StepFrame ==
    [][steps' # steps =>
         /\ DOMAIN filtration'.raw_values = DOMAIN filtration.raw_values
         /\ filtration'.times = filtration.times
         /\ filtration'.scenarios = filtration.scenarios
         /\ filtration'.process_names = filtration.process_names
         /\ \A c \in AllCells(filtration) :
              (c[1] # time_idx + 1 \/ c[2] # scenario_idx) =>
                 get_raw(filtration', c[1], c[2], c[3])
                   = get_raw(filtration, c[1], c[2], c[3])]_vars

\* A Runge-Kutta step of a later scenario that changed its row, with other
\* scenarios and rows around it.
C2_Witness ==
    /\ Stepped
    /\ scheme = "runge-kutta"
    /\ LastScenario = 1
    /\ LastTime = 1
    /\ \E p \in 0..(NumProcesses(filtration) - 1) :
         Get(filtration, 1, 2, p) # Get(before.val, 1, 2, p)

\* The initial value of a process name: the map's entry, 0 without one.
SuppliedValue(name) ==
    IF IsSome(initial_values) THEN InitialValue(initial_values.val, name) ELSE 0

\* C3: from construction on, through and after simulate, row 0 of every
\* scenario holds for every process the caller's initial value of its name,
\* 0 when the map has no entry for it.
C3_RowZeroInitial ==
    \A s \in 0..(NumScenarios(filtration) - 1), p \in 0..(NumProcesses(filtration) - 1) :
        Get(filtration, s, 0, p) = SuppliedValue(filtration.process_names[p + 1])

\* A finished run over two scenarios whose map names one process and not
\* the other.
C3_Witness ==
    /\ pc = "done"
    /\ NumScenarios(filtration) >= 2
    /\ IsSome(initial_values)
    /\ Get(filtration, 1, 0, 0) # 0
    /\ \E p \in 1..NumProcesses(filtration) :
         filtration.process_names[p] \notin DOMAIN initial_values.val
    /\ \E c \in AllCells(filtration) : c[1] > 0 /\ get_raw(filtration, c[1], c[2], c[3]) # 0

\* The rows of a record list that carry the triple of cell (t, s, p).
RowsOf(rows, f, t, s, p) ==
    {k \in 1..Len(rows) :
        /\ rows[k].time = f.times[t + 1]
        /\ rows[k].scenario = f.scenarios[s + 1]
        /\ rows[k].process_name = f.process_names[p + 1]}

\* C4: the materialised output has S * N * P records, and every triple
\* (scenario label, time, process name) is in exactly one of them, with
\* the value of the tensor cell of the triple.
C4_DataframeExact ==
    [][df' # df =>
         /\ Len(df'.val) = NumScenarios(filtration) * NumTimes(filtration)
                             * NumProcesses(filtration)
         /\ \A c \in AllCells(filtration) :
              LET hits == RowsOf(df'.val, filtration, c[1], c[2], c[3])
              IN  /\ Cardinality(hits) = 1
                  /\ \A k \in hits :
                       df'.val[k].value = get_raw(filtration, c[1], c[2], c[3])]_vars

\* An output taken after a run over two scenarios, three times and two
\* processes, holding a simulated value.
C4_Witness ==
    /\ IsSome(df)
    /\ pc = "done"
    /\ NumScenarios(filtration) = 2
    /\ NumTimes(filtration) = 3
    /\ NumProcesses(filtration) = 2
    /\ \E k \in 1..Len(df.val) :
         df.val[k].time # filtration.times[1] /\ df.val[k].value # 0
    /\ \E k \in 1..Len(df.val) :
         df.val[k].process_name = filtration.process_names[2] /\ df.val[k].value # 0

\* The index triple of a record, in a given order of the three axes.
RowTimeIdx(r) == IndexOf(filtration.times, r.time)
RowScenarioIdx(r) == IndexOf(filtration.scenarios, r.scenario)
RowProcessIdx(r) == IndexOf(filtration.process_names, r.process_name)

LexLess(a, b) ==
    \/ a[1] < b[1]
    \/ a[1] = b[1] /\ a[2] < b[2]
    \/ a[1] = b[1] /\ a[2] = b[2] /\ a[3] < b[3]

\* C5: the records are in the order scenario outermost, time in the
\* middle, process innermost.
C5_ScenarioOuterOrder ==
    IsSome(df) =>
        \A a, b \in 1..Len(df.val) :
            a < b =>
              LexLess(<<RowScenarioIdx(df.val[a]), RowTimeIdx(df.val[a]),
                        RowProcessIdx(df.val[a])>>,
                      <<RowScenarioIdx(df.val[b]), RowTimeIdx(df.val[b]),
                        RowProcessIdx(df.val[b])>>)

\* The steps (scenario_idx, time_idx) of S scenarios and T time steps, in
\* lexicographic order, from (s, i) on.
RECURSIVE LexSteps(_, _, _, _)
LexSteps(S, T, s, i) ==
    IF s >= S THEN <<>>
    ELSE IF i >= T THEN LexSteps(S, T, s + 1, 0)
    ELSE << <<s, i>> >> \o LexSteps(S, T, s, i + 1)

\* The cells a list of steps writes: for each step (s, i) in turn, the
\* cells of row (s, i + 1) from process 0 up.
RECURSIVE RowsWritten(_, _)
RowsWritten(f, ss) ==
    IF ss = <<>> THEN <<>>
    ELSE [p \in 1..NumProcesses(f) |-> Offset(f, Head(ss)[2] + 1, Head(ss)[1], p - 1)]
         \o RowsWritten(f, Tail(ss))

\* C6: the steps simulate has run are an initial part of the lexicographic
\* list of the (scenario_idx, time_idx), all S * (N - 1) of them when it
\* returns, and the cells written are those of these steps, in their order.
C6_LoopOrder ==
    LET all == LexSteps(NumScenarios(filtration), NumTimes(filtration) - 1, 0, 0)
    IN  /\ Len(steps) <= Len(all)
        /\ steps = SubSeq(all, 1, Len(steps))
        /\ pc = "done" =>
             Len(steps) = NumScenarios(filtration) * (NumTimes(filtration) - 1)
        /\ filtration.log = RowsWritten(filtration, steps)

\* A finished run of two scenarios with two steps each.
C6_Witness ==
    /\ pc = "done"
    /\ NumScenarios(filtration) = 2
    /\ NumTimes(filtration) = 3
    /\ Len(steps) = 4
    /\ NumProcesses(filtration) = 2

\* The last call in log on incrementor (p, j), None without one.
RECURSIVE PrevCall(_, _, _)
PrevCall(log, p, j) ==
    IF log = <<>> THEN None
    ELSE LET c == log[Len(log)]
         IN  IF c.process = p /\ c.term = j THEN Some(c)
             ELSE PrevCall(SubSeq(log, 1, Len(log) - 1), p, j)

\* C7: a call of sample on a Wiener or jump incrementor with the
\* (time_idx, scenario_idx) of the call before it on that incrementor
\* returns the value of that call and leaves the RNG alone; any other call
\* makes exactly one call of rng.sample and leaves its own key and value in
\* the register.
C7_SingleSlotCache ==
    [][sample_log' # sample_log =>
         LET c == sample_log'[Len(sample_log')]
             prev == PrevCall(sample_log, c.process, c.term)
             inc == processes'[c.process].incrementors[c.term]
         IN  IF /\ IsSome(prev)
                /\ prev.val.time_idx = c.time_idx
                /\ prev.val.scenario_idx = c.scenario_idx
             THEN /\ c.value = prev.val.value
                  /\ rng' = rng
             ELSE /\ rng'.calls = rng.calls + 1
                  /\ inc.last = LastValue(c.time_idx, c.scenario_idx, c.value)]_vars

\* Three calls on one incrementor: a first one, a repeat of it with a
\* result that is not zero, and one for the next time index.
C7_Witness ==
    /\ Len(sample_log) = 3
    /\ sample_log[1].process = sample_log[2].process
    /\ sample_log[1].term = sample_log[2].term
    /\ sample_log[3].process = sample_log[1].process
    /\ sample_log[3].term = sample_log[1].term
    /\ sample_log[1].time_idx = sample_log[2].time_idx
    /\ sample_log[1].scenario_idx = sample_log[2].scenario_idx
    /\ sample_log[3].scenario_idx = sample_log[1].scenario_idx
    /\ sample_log[3].time_idx # sample_log[1].time_idx
    /\ sample_log[2].value # 0
    /\ sample_log[3].value # sample_log[2].value
    /\ rng.calls = 2

\* The Wiener incrementors of the system, as (process, term) pairs.
WienerTerms ==
    {pj \in (1..Len(processes)) \X (1..3) :
        /\ pj[2] <= Len(processes[pj[1]].incrementors)
        /\ processes[pj[1]].incrementors[pj[2]].kind = "dW"}

\* The equations of a system: names, coefficients and tokens, without the
\* registers of the incrementors.
Equations(procs) ==
    [p \in 1..Len(procs) |->
        [name |-> procs[p].name, coefficients |-> procs[p].coefficients,
         tokens |-> [j \in 1..Len(procs[p].incrementors) |->
                       <<procs[p].incrementors[j].kind, procs[p].incrementors[j].idx>>]]]

\* The system is dX1 = (0)*dt + (1)*dW1, dX2 = (0)*dt + (1)*dW1.
IsSharedSystem == Equations(processes) = Equations(System("shared", filtration.times))

\* C8: after every step of a run, with either backend, two Wiener
\* incrementors of the same token hold the same increment, sampled for
\* that step; and for dX1 = (0)*dt + (1)*dW1, dX2 = (0)*dt + (1)*dW1 with
\* equal initial values X1 and X2 are equal at every time and scenario.
C8_SharedToken ==
    /\ Stepped =>
         \A a, b \in WienerTerms :
            LET ia == processes[a[1]].incrementors[a[2]]
                ib == processes[b[1]].incrementors[b[2]]
            IN  ia.idx = ib.idx =>
                  /\ IsSome(ia.last) /\ IsSome(ib.last)
                  /\ ia.last.val.time_idx = LastTime
                  /\ ia.last.val.scenario_idx = LastScenario
                  /\ ia.last.val = ib.last.val
    /\ (/\ IsSharedSystem
        /\ SuppliedValue(NameX1) = SuppliedValue(NameX2)) =>
         \A t \in 0..(NumTimes(filtration) - 1), s \in 0..(NumScenarios(filtration) - 1) :
            Get(filtration, s, t, 0) = Get(filtration, s, t, 1)

\* A finished Sobol run of the two-equation system in which both paths
\* have moved, differently in the two scenarios.
C8_Witness ==
    /\ pc = "done"
    /\ rng.kind = "sobol"
    /\ IsSharedSystem
    /\ SuppliedValue(NameX1) = SuppliedValue(NameX2)
    /\ NumScenarios(filtration) = 2
    /\ Get(filtration, 0, NumTimes(filtration) - 1, 0) # Get(filtration, 0, 0, 0)
    /\ Get(filtration, 1, NumTimes(filtration) - 1, 1)
         # Get(filtration, 0, NumTimes(filtration) - 1, 1)

\* C9: in a Sobol run with a non-dt source the iterator is untouched before
\* the first step, and after a step of scenario n it has yielded n + 1
\* points past the burn-in, the cache holding point n; at return it has
\* yielded S points. This holds for Euler and for Runge-Kutta, whose sign
\* draw leaves the iterator alone.
C9_OnePointPerScenario ==
    (rng.kind = "sobol" /\ NumIncrements(processes) >= 1) =>
        /\ ~Stepped => (rng.sobol_next = SobolSkip /\ ~IsSome(rng.last_step))
        /\ Stepped =>
             /\ rng.sobol_next = SobolSkip + LastScenario + 1
             /\ IsSome(rng.last_step)
             /\ rng.last_step.val.scenario_idx = LastScenario
             /\ rng.last_step.val.values
                  = Scramble(SobolPoint(SobolSkip + LastScenario, rng.dims),
                             rng.scr_seed, rng.dims * LastScenario)
        /\ pc = "done" => rng.sobol_next = SobolSkip + NumScenarios(filtration)

\* A finished Runge-Kutta run on Sobol points, two scenarios of two steps,
\* with two sources.
C9_Witness ==
    /\ pc = "done"
    /\ rng.kind = "sobol"
    /\ scheme = "runge-kutta"
    /\ NumIncrements(processes) = 2
    /\ NumScenarios(filtration) = 2
    /\ NumTimes(filtration) = 3
    /\ rng.sobol_next = SobolSkip + 2

\* Sum over the terms j..n of process p of c * d, d the increment of the
\* last step shifted by shift on every term but the first, the coefficients
\* read from row (t_idx, s_idx) of cf at time at.
RECURSIVE RkSum(_, _, _, _, _, _, _)
RkSum(p, j, cf, at, t_idx, s_idx, shift) ==
    IF j > Len(processes[p].incrementors) THEN 0
    ELSE Coeff(processes[p].coefficients[j], cf, at, t_idx, s_idx)
           * (IncrementOf(processes[p].incrementors[j], LastTime)
              + (IF j = 1 THEN 0 ELSE shift))
         + RkSum(p, j + 1, cf, at, t_idx, s_idx, shift)

\* sk * sqrt(dt) of the last step.
LastShift == sk * Sqrt(filtration.times[LastTime + 2] - filtration.times[LastTime + 1])

\* C10: after a Runge-Kutta step for (s, i), for every process p: k1[p] is
\* the sum of c * d with c on row (s, i) and d shifted by -sk*sqrt(dt) on
\* every term but term 0, the scratchpad holds row(s,i)[p] + k1[p], k2[p] is
\* the sum with c on the scratchpad row and d shifted by +sk*sqrt(dt), and
\* cell (s, i+1, p) is row(s,i)[p] + (k1[p] + k2[p]) / 2.
C10_RungeKuttaCommit ==
    (scheme = "runge-kutta" /\ Stepped) =>
        \A p \in 1..Len(processes) :
            LET at == before.val.times[LastTime + 1]
                row == Get(before.val, LastScenario, LastTime, p - 1)
            IN  /\ k1[p] = RkSum(p, 1, before.val, at, LastTime, LastScenario,
                                 -LastShift)
                /\ Get(rk_scratchpad.val, 0, 0, p - 1) = row + k1[p]
                /\ k2[p] = RkSum(p, 1, rk_scratchpad.val, at, 0, 0, LastShift)
                /\ (k1[p] + k2[p]) % 2 = 0
                /\ Get(filtration, LastScenario, LastTime + 1, p - 1)
                     = row + Half(k1[p] + k2[p])

\* A second Runge-Kutta step of the coupled system with k1 and k2 of the
\* second process different and not zero.
C10_Witness ==
    /\ scheme = "runge-kutta"
    /\ Stepped
    /\ LastTime = 1
    /\ Len(processes) = 2
    /\ Len(processes[2].incrementors) = 3
    /\ k1[2] # 0
    /\ k2[2] # 0
    /\ k1[2] # k2[2]
    /\ k1[1] # k2[1]

\* The step_k2 of process p from its terms j..n, read off the state st stage 1
\* left: the coefficients on the scratchpad row at time_start, the increments
\* out of the registers stage 1 filled, no incrementor sampled.
RECURSIVE Stage2Sum(_, _, _, _, _)
Stage2Sum(st, p, j, time_start, shift) ==
    LET proc == st.procs[p]
    IN  IF j > Len(proc.incrementors) THEN 0
        ELSE Coeff(proc.coefficients[j], st.scratchpad, time_start, 0, 0)
               * (IF j = 1 THEN IncrementOf(proc.incrementors[j], time_idx)
                  ELSE IncrementOf(proc.incrementors[j], time_idx) + shift)
             + Stage2Sum(st, p, j + 1, time_start, shift)

\* The state of the kernel when stage 1 of the step at (scenario_idx,
\* time_idx) has run with the sign sign.
AfterStage1(sign) ==
    RkStage1([f |-> filtration, procs |-> processes, rng |-> rng,
              scratchpad |-> rk_scratchpad.val,
              k1 |-> [p \in 1..Len(processes) |-> 0],
              k2 |-> [p \in 1..Len(processes) |-> 0]],
             [time_start |-> filtration.times[time_idx + 1], time_idx |-> time_idx,
              scenario_idx |-> scenario_idx],
             sign * Sqrt(filtration.times[time_idx + 2] - filtration.times[time_idx + 1]),
             0)

\* C11: in a Runge-Kutta step for (s, i), when stage 2 starts the scratchpad
\* row holds row(s,i)[p] + k1[p] for every process p; stage 2 evaluates every
\* coefficient on that row at time times[i] and takes for every term the
\* increment stage 1 obtained, so that the RNG backend, the registers of the
\* incrementors and the scratchpad are after the step as stage 1 left them.
C11_Stage2NoDraw ==
    [][(scheme = "runge-kutta" /\ steps' # steps) =>
         \E st1 \in {AfterStage1(sk')} :
            /\ rng' = st1.rng
            /\ processes' = st1.procs
            /\ rk_scratchpad' = Some(st1.scratchpad)
            /\ \A p \in 1..Len(processes) :
                 /\ Get(st1.scratchpad, 0, 0, p - 1)
                      = Get(filtration, scenario_idx, time_idx, p - 1) + st1.k1[p]
                 /\ k2'[p] = Stage2Sum(st1, p, 1, filtration.times[time_idx + 1],
                                       sk' * Sqrt(filtration.times[time_idx + 2]
                                                  - filtration.times[time_idx + 1]))]_vars

\* The first Runge-Kutta step of the coupled system done: its three noise
\* terms were sampled once each, and k2 differs from k1.
C11_Witness ==
    /\ scheme = "runge-kutta"
    /\ Len(steps) = 1
    /\ Len(processes) = 2
    /\ Len(processes[2].incrementors) = 3
    /\ rng.calls = 3
    /\ k2[2] # k1[2]
    /\ k2[2] # 0

\* Every equation is one dt term with a constant coefficient.
IsPureDrift ==
    \A p \in 1..Len(processes) :
        /\ Len(processes[p].incrementors) = 1
        /\ processes[p].incrementors[1].kind = "dt"
        /\ processes[p].coefficients[1].var = NoVar
        /\ processes[p].coefficients[1].tmult = 0

\* The values of process p over the times of scenario s.
Column(f, s, p) == [t \in 1..NumTimes(f) |-> Get(f, s, t - 1, p)]

\* C12: for pure-drift equations dX = (c)*dt with constant c, after simulate
\* with the Euler scheme the value at every time index k of every scenario
\* is X(t_0) + c * (t_k - t_0); with c = 2, the times 0..5, one scenario and
\* X(t_0) = 0 the values are 0, 2, 4, 6, 8, 10.  Cells and initial values are
\* multiples of 1 / Scale.
C12_PureDriftLinear ==
    (pc = "done" /\ scheme = "euler" /\ IsPureDrift) =>
        /\ \A c \in AllCells(filtration) :
             get_raw(filtration, c[1], c[2], c[3])
               = SuppliedValue(filtration.process_names[c[3] + 1])
                 + processes[c[3] + 1].coefficients[1].const
                     * (filtration.times[c[1] + 1] - filtration.times[1]) * Scale
        /\ (/\ filtration.times = DriftGrid
            /\ NumScenarios(filtration) = 1
            /\ filtration.process_names = <<NameX>>
            /\ initial_values = None)
           => Column(filtration, 0, 0)
                = <<0, 2 * Scale, 4 * Scale, 6 * Scale, 8 * Scale, 10 * Scale>>

\* The Euler run of the example done: dX = (2) * dt over the times 0..5, one
\* scenario, no initial value, the last value 10.
C12_Witness ==
    /\ pc = "done"
    /\ scheme = "euler"
    /\ IsPureDrift
    /\ filtration.times = DriftGrid
    /\ NumScenarios(filtration) = 1
    /\ filtration.process_names = <<NameX>>
    /\ initial_values = None
    /\ Get(filtration, 0, 5, 0) = 10 * Scale

\* A second run is done and the first run is kept.
SecondRunDone == pc = "done" /\ IsSome(first_run)

\* C13: for a system whose equations are all pure drift with constant
\* coefficients, a run of simulate with "runge-kutta" and a run with "euler"
\* on the same time grid, scenarios and initial values leave the same tensor,
\* cell by cell.
C13_SchemesAgreeOnDrift ==
    (SecondRunDone /\ IsPureDrift /\ first_run.val.scheme # scheme) =>
        \A c \in AllCells(filtration) :
            get_raw(filtration, c[1], c[2], c[3])
              = first_run.val.raw_values[Offset(filtration, c[1], c[2], c[3])]

\* An Euler run and then a Runge-Kutta run of dX1 = (1)*dt, dX2 = (3)*dt over
\* two scenarios on a grid of unequal steps, the last value not zero.
C13_Witness ==
    /\ SecondRunDone
    /\ IsPureDrift
    /\ first_run.val.scheme = "euler"
    /\ scheme = "runge-kutta"
    /\ Len(processes) = 2
    /\ NumScenarios(filtration) = 2
    /\ filtration.times = <<0, 1, 5>>
    /\ Get(filtration, 1, 2, 1) # 0
    /\ k1 # <<>>

\* Every term of every equation is a dt term.
IsZeroNoise ==
    \A p \in 1..Len(processes) :
        \A j \in 1..Len(processes[p].incrementors) :
            processes[p].incrementors[j].kind = "dt"

C15_SobolRunsRepeat ==
    (SecondRunDone /\ rng.kind = "sobol" /\ first_run.val.rng.kind = "sobol"
       /\ first_run.val.rng.scr_seed = rng.scr_seed
       /\ first_run.val.scheme = scheme)
    => filtration.raw_values = first_run.val.raw_values

\* The positions of the equations that parse_equation does not turn into a
\* process.
FailingEquations ==
    {i \in 1..Len(equations) : parse_equation(equations[i]).tag # "Ok"}

\* C16: parse_equations over a list of equations returns either one process
\* per equation, in equation order, or the error of the first equation, in
\* list order, that fails to parse; no process list comes with an error, and
\* for the empty list it returns an error.
C16_AllOrFirstError ==
    pc = "parsed" =>
        IF equations = <<>> THEN compiled.val.tag = "Err"
        ELSE IF FailingEquations = {}
        THEN /\ compiled.val.tag = "Ok"
             /\ Len(compiled.val.val) = Len(equations)
             /\ \A i \in 1..Len(equations) :
                  compiled.val.val[i] = parse_equation(equations[i]).val
        ELSE /\ compiled.val.tag = "Err"
             /\ \E i \in FailingEquations :
                  /\ \A j \in FailingEquations : i <= j
                  /\ compiled.val = parse_equation(equations[i])

\* The malformed equations: no '=', an EXPR the expression engine rejects, a
\* coefficient whose parenthesis is not closed, a coefficient without
\* parentheses, a dJ term without lambda, a dJ term whose lambda is no
\* number, and two terms whose incrementor is none of dt, dW..., dJ....
MalformedEquations ==
    {Equation(id) : id \in {"NoEquals", "BadExpr", "OpenParen", "NoParens", "NoLambda",
                            "BadLambda", "NoIncrementor", "Unsupported"}}

\* C17: every malformed equation yields an error value from the compiler,
\* never a process with a defaulted term and never a crash.
C17_MalformedIsError ==
    (pc = "parsed" /\ \E i \in 1..Len(equations) : equations[i] \in MalformedEquations)
    => compiled.val.tag = "Err"

\* C18: a call of simulate with a scheme string other than "euler" and
\* "runge-kutta" never returns normally, whatever the numbers of scenarios
\* and times of the Filtration, and writes no cell of the Filtration.
C18_UnknownSchemeFatal ==
    scheme \notin Schemes =>
        /\ pc # "done"
        /\ filtration.log = <<>>

\* C19: every process the compiler produces or LevyProcess::new accepts has
\* coefficient and incrementor lists of equal length, both non-empty, and the
\* time incrementor at position 0.
C19_ProcessShape ==
    (IsSome(compiled) /\ compiled.val.tag = "Ok") =>
        \A i \in 1..Len(compiled.val.val) :
            /\ Len(compiled.val.val[i].coefficients)
                 = Len(compiled.val.val[i].incrementors)
            /\ compiled.val.val[i].incrementors # <<>>
            /\ compiled.val.val[i].incrementors[1].kind = "dt"

C21_ScenarioMajorOffset ==
    LET N == NumTimes(filtration)
        P == NumProcesses(filtration)
    IN  /\ \A c \in AllCells(filtration) :
             Offset(filtration, c[1], c[2], c[3]) = c[2] * N * P + c[1] * P + c[3]
        /\ Stepped =>
             \A p \in 0..(P - 1) :
                filtration.log[Len(filtration.log) - P + 1 + p]
                  = LastScenario * N * P + (LastTime + 1) * P + p

\* The parenthesis depth in front of position i of rhs: the '(' less the ')'
\* among the characters before it.
Depth(rhs, i) ==
    Cardinality({j \in 1..(i - 1) : rhs[j] = "("})
      - Cardinality({j \in 1..(i - 1) : rhs[j] = ")"})

\* The positions of the '+' of rhs at depth 0, with 0 and Len(rhs) + 1 as
\* the two ends.
Cuts(rhs) ==
    {0, Len(rhs) + 1} \cup {i \in 1..Len(rhs) : rhs[i] = "+" /\ Depth(rhs, i) = 0}

\* The texts between the cuts of rhs from the cut at position a on, in
\* order, the blank ones left out.
RECURSIVE TermsFrom(_, _)
TermsFrom(rhs, a) ==
    IF a > Len(rhs) THEN <<>>
    ELSE LET b == CHOOSE c \in Cuts(rhs) : c > a /\ \A d \in Cuts(rhs) : d > a => c <= d
             text == SubSeq(rhs, a + 1, b - 1)
         IN  (IF Trim(text) = <<>> THEN <<>> ELSE <<text>>) \o TermsFrom(rhs, b)

\* The outcome of compiling the terms from position k on one after the other
\* behind the pairs cs and ds: the pairs of all, or what the first term that
\* does not compile yields.
RECURSIVE CompileInOrder(_, _, _, _)
CompileInOrder(terms, k, cs, ds) ==
    IF k > Len(terms) THEN Ok([coefficients |-> cs, incrementors |-> ds])
    ELSE IF parse_single_term(terms[k]).tag # "Ok" THEN parse_single_term(terms[k])
    ELSE CompileInOrder(terms, k + 1,
                        Append(cs, parse_single_term(terms[k]).val.coefficient),
                        Append(ds, parse_single_term(terms[k]).val.incrementor))

\* An equation with a name and a '='; its right-hand side.
HasHead(equation) == NameOf(equation) # None /\ SplitNth1(equation) # None
Rhs(equation) == Trim(SplitNth1(equation).val)
TermsOutcome(equation) == CompileInOrder(TermsFrom(Rhs(equation), 0), 1, <<>>, <<>>)

\* C22: the right-hand side is cut into terms exactly at its '+' of depth 0
\* and the non-blank terms are compiled from left to right, one coefficient
\* and one incrementor each: a compiled process carries the pairs of its
\* terms in their order, and a failed compilation fails with what the
\* leftmost term that does not compile yields.
C22_TopLevelPlusSplits ==
    pc = "parsed" =>
        \A i \in 1..Len(equations) :
            (\A j \in 1..i : HasHead(equations[j])
                               /\ (j < i => TermsOutcome(equations[j]).tag = "Ok"))
            => IF TermsOutcome(equations[i]).tag = "Ok"
               THEN compiled.val.tag = "Ok" =>
                      /\ compiled.val.val[i].coefficients
                           = TermsOutcome(equations[i]).val.coefficients
                      /\ compiled.val.val[i].incrementors
                           = TermsOutcome(equations[i]).val.incrementors
               ELSE compiled.val = TermsOutcome(equations[i])

\* A compiled list that holds an equation with a '+' inside nested
\* parentheses and one at depth 0, and an equation with blank terms and a
\* '+' in front: two pairs each.
C22_Witness ==
    /\ pc = "parsed"
    /\ equations = <<Equation("NestedPlus"), Equation("BlankTerms")>>
    /\ compiled.val.tag = "Ok"
    /\ Len(compiled.val.val[1].coefficients) = 2
    /\ compiled.val.val[1].coefficients[1]
         = <<"(", "X", " ", "+", " ", "1", ")", " ", "+", " ", "t">>
    /\ compiled.val.val[1].incrementors[2].kind = "dW"
    /\ Len(compiled.val.val[2].incrementors) = 2
    /\ compiled.val.val[2].incrementors[1].kind = "dt"

\* The value of a coefficient expression with t bound to the time and its
\* variable bound to the value its process has in row (s_idx, t_idx) of f.
BoundCoeff(expr, f, time, t_idx, s_idx) ==
    expr.const * Scale
      + (IF expr.var = NoVar THEN 0
         ELSE expr.mult * Get(f, s_idx, t_idx, IndexOf(f.process_names, expr.var)))
      + expr.tmult * time * Scale

\* Sum over the terms j..n of process p of c * d, c the expression of the
\* term with its variables bound on row (t_idx, s_idx) of cf at time at, d
\* the increment of the last step.
RECURSIVE BoundSum(_, _, _, _, _, _)
BoundSum(p, j, cf, at, t_idx, s_idx) ==
    IF j > Len(processes[p].incrementors) THEN 0
    ELSE BoundCoeff(processes[p].coefficients[j], cf, at, t_idx, s_idx)
           * IncrementOf(processes[p].incrementors[j], LastTime)
         + BoundSum(p, j + 1, cf, at, t_idx, s_idx)

\* The expressions of process p name only processes of the Filtration.
NamesKnown(p) ==
    \A j \in 1..Len(processes[p].coefficients) :
        \/ processes[p].coefficients[j].var = NoVar
        \/ IndexOf(filtration.process_names, processes[p].coefficients[j].var) >= 0

\* C23: in an Euler step every coefficient whose expression names only t,
\* literals and processes of the Filtration is evaluated with t bound to the
\* time of the step and each process name, whatever its first letter, bound
\* to the value of that process in the row the step starts from.
C23_NamesBound ==
    (scheme = "euler" /\ Stepped) =>
        \A p \in 1..Len(processes) :
            NamesKnown(p) =>
                Get(filtration, LastScenario, LastTime + 1, p - 1)
                  = Get(before.val, LastScenario, LastTime, p - 1)
                    + BoundSum(p, 1, before.val, before.val.times[LastTime + 1],
                               LastTime, LastScenario)

\* The Wiener and jump tokens of a list of names.
NoiseTokens(names) == {names[i] : i \in 1..Len(names)} \ {<<"d", "t">>}

\* The number of distinct Wiener and jump tokens in front of the first
\* occurrence of token in names.
FirstSeenRank(names, token) ==
    Cardinality(NoiseTokens(SubSeq(names, 1, Find(names, token, 1) - 1)))

\* C24: the backend is set up with K the number of distinct Wiener and jump
\* tokens of the compiled equations; each of these tokens has one slot in
\* 0..K-1, the slots are given 0, 1, 2, ... in the order the tokens are first
\* seen, and dt has no slot.
C24_SourceIndices ==
    pc = "registered" =>
        \E names \in {increment_names(compiled.val.val)} :
            /\ rng.num_increments = Cardinality(NoiseTokens(names))
            /\ IndexOf(names, <<"d", "t">>) = -1
            /\ \A token \in NoiseTokens(names) :
                 /\ IndexOf(names, token) \in 0..(rng.num_increments - 1)
                 /\ IndexOf(names, token) = FirstSeenRank(names, token)

\* The calls of the log on the Sobol backend with a time index below N - 1
\* and a source index below K.
SobolCallsInRange ==
    {c \in 1..Len(sample_log) :
        /\ sample_log[c].rng_before.kind = "sobol"
        /\ ~sample_log[c].failed
        /\ sample_log[c].time_idx < num_time_deltas
        /\ sample_log[c].increment_idx < sample_log[c].rng_before.num_increments}

\* The backend as call c of the log left it.
RngAfter(c) == IF c = Len(sample_log) THEN rng ELSE sample_log[c + 1].rng_before

\* C25: a call sample(t, s, i) on the Sobol backend with t < N - 1 and i < K
\* reads element t * K + i of the cached vector of scenario s, which has
\* (N - 1) * K elements, and returns it; the element exists, and calls of
\* one scenario with different (t, i) read different elements.
C25_SobolElement ==
    \A c \in SobolCallsInRange :
        /\ sample_log[c].read
             = sample_log[c].time_idx * rng.num_increments + sample_log[c].increment_idx
        /\ Len(RngAfter(c).last_step.val.values) = num_time_deltas * rng.num_increments
        /\ sample_log[c].read \in 0..(Len(RngAfter(c).last_step.val.values) - 1)
        /\ sample_log[c].value = RngAfter(c).last_step.val.values[sample_log[c].read + 1]
        /\ \A d \in SobolCallsInRange :
             (/\ sample_log[d].scenario_idx = sample_log[c].scenario_idx
              /\ <<sample_log[d].time_idx, sample_log[d].increment_idx>>
                   # <<sample_log[c].time_idx, sample_log[c].increment_idx>>)
             => sample_log[d].read # sample_log[c].read

\* Three calls of one scenario on a backend of two sources, at (0, 1), (1, 0)
\* and (1, 1): the last elements of the first step and the two of the second.
C25_Witness ==
    /\ rng.kind = "sobol"
    /\ rng.num_increments = 2
    /\ Len(sample_log) = 3
    /\ \A c \in 1..3 : sample_log[c].scenario_idx = 0 /\ ~sample_log[c].failed
    /\ <<sample_log[1].time_idx, sample_log[1].increment_idx>> = <<0, 1>>
    /\ <<sample_log[2].time_idx, sample_log[2].increment_idx>> = <<1, 0>>
    /\ <<sample_log[3].time_idx, sample_log[3].increment_idx>> = <<1, 1>>
    /\ sample_log[3].read = 3

\* The Wiener and jump incrementors of the system, as (process, term) pairs.
NoiseTerms ==
    {pj \in (1..Len(processes)) \X (1..3) :
        /\ pj[2] <= Len(processes[pj[1]].incrementors)
        /\ processes[pj[1]].incrementors[pj[2]].kind # "dt"}

\* The n-th (from 0) vector of K uniforms of the stream seeded with seed.
PseudoVector(seed, n, K) == [j \in 1..K |-> RandomF64(seed, n * K + j - 1)]

\* The increment an incrementor makes of the uniform u at time index t_idx.
IncrementFrom(inc, u, t_idx) ==
    IF inc.kind = "dW" THEN Sqrt(inc.dts[t_idx + 1]) * fast_inverse_normal_cdf(u)
    ELSE fast_inverse_poisson_cdf(u, inc.lambda10 * inc.dts[t_idx + 1])

\* C26: in a run on the Pseudo backend the cache is refilled with K fresh
\* uniforms once in every step that samples a Wiener or jump increment and
\* never else: after n steps the backend has drawn n * K uniforms, at most
\* S * (N - 1) * K, its cache is keyed by the last step and holds the n-th
\* K-vector of the stream, and every increment of the step was made from
\* the element of that vector at its source index.
C26_PseudoRefill ==
    rng.kind = "pseudo" =>
        /\ rng.draws = IF NoiseTerms = {} THEN 0 ELSE rng.num_increments * Len(steps)
        /\ rng.draws <= num_scenarios * num_time_deltas * rng.num_increments
        /\ (Stepped /\ NoiseTerms # {}) =>
             /\ rng.last_step
                  = Some([time_idx |-> Some(LastTime), scenario_idx |-> LastScenario,
                          values |-> PseudoVector(rng.seed, Len(steps) - 1,
                                                  rng.num_increments)])
             /\ \A pj \in NoiseTerms :
                  processes[pj[1]].incrementors[pj[2]].last.val.value
                    = IncrementFrom(processes[pj[1]].incrementors[pj[2]],
                                    rng.last_step.val.values[
                                        processes[pj[1]].incrementors[pj[2]].idx + 1],
                                    LastTime)

\* A finished run on the Pseudo backend of a system with two sources, two
\* scenarios of two steps each: four refills of two uniforms.
C26_Witness ==
    /\ pc = "done"
    /\ rng.kind = "pseudo"
    /\ rng.num_increments = 2
    /\ NumScenarios(filtration) = 2
    /\ NumTimes(filtration) = 3
    /\ rng.draws = 8
    /\ Cardinality(NoiseTerms) = 3

\* The cumulative probability of k jumps at intensity lambda10 / 10, as a
\* multiple of 1 / PScale: the sum of the probabilities of 0..k, each made
\* from the one before by the factor lambda / j; from the terms up to st.k
\* on, by halves.
RECURSIVE CumulativeFrom(_, _, _)
CumulativeFrom(lambda10, st, k) ==
    IF st.k >= k THEN st
    ELSE IF st.k + 1 = k
    THEN [p |-> (st.p * lambda10) \div (10 * k),
          f |-> st.f + (st.p * lambda10) \div (10 * k),
          k |-> k]
    ELSE CumulativeFrom(lambda10, CumulativeFrom(lambda10, st, (st.k + k) \div 2), k)

Cumulative(lambda10, k) ==
    CumulativeFrom(lambda10, [p |-> ExpNeg(lambda10), f |-> ExpNeg(lambda10), k |-> 0], k).f

\* C27: the inverse Poisson search returns, for every uniform and every
\* effective intensity, an integer k in 0..200, the number of its
\* iterations; 0 for an intensity <= 0; and below 200 the smallest k whose
\* cumulative probability is >= u, the cumulative probabilities being
\* non-decreasing; it returns 200 only when no k below 200 has one.
C27_PoissonSearchCapped ==
    \A c \in 1..Len(sample_log) :
        \E k \in {sample_log[c].value}, lambda10 \in {sample_log[c].effective_lambda},
           u \in {(sample_log[c].u * PScale) \div UDen} :
            /\ k \in 0..PoissonCap
            /\ lambda10 <= 0 => k = 0
            /\ (lambda10 > 0 /\ k < PoissonCap) => Cumulative(lambda10, k) >= u
            /\ (lambda10 > 0 /\ k > 0) => Cumulative(lambda10, k - 1) < u

\* Searches that end at once, after some iterations, at the cap, and one at
\* an intensity of 0.
C27_Witness ==
    /\ Len(sample_log) = 2
    /\ \/ /\ sample_log[1].effective_lambda = 95
          /\ sample_log[1].value = PoissonCap
          /\ sample_log[2].u = 0
          /\ sample_log[2].value = 0
       \/ /\ sample_log[1].effective_lambda = 50
          /\ sample_log[1].value > 3
          /\ sample_log[2].value < sample_log[1].value
          /\ sample_log[2].u > 0

\* The evaluation of expr on f fails: it names an identifier that has no
\* value, one that does not start with X or that is no process of f.
EvaluationFails(expr, f) ==
    /\ expr.var # NoVar
    /\ \/ Head(expr.var) # "X"
       \/ IndexOf(f.process_names, expr.var) < 0

ElementMissing(c) ==
    \/ sample_log[c].increment_idx >= sample_log[c].rng_before.num_increments
    \/ sample_log[c].time_idx >= num_time_deltas
    \/ /\ sample_log[c].rng_before.kind = "sobol"
       /\ sample_log[c].rng_before.sobol_next >= SobolLen
       /\ \/ sample_log[c].rng_before.last_step = None
          \/ sample_log[c].rng_before.last_step.val.scenario_idx
               # sample_log[c].scenario_idx

\* C29: every call of rng.sample, of either backend and in every state of
\* it, returns a value without failing, and returns 0.0 when the element
\* it asks for does not exist.
C29_SampleTotal ==
    \A c \in 1..Len(sample_log) :
        /\ ~sample_log[c].failed
        /\ ElementMissing(c) => sample_log[c].value = 0

\* The buffers bound to name that have been created in this run.
Created(name) == {i \in 1..Len(buffers) : buffers[i].name = name}

\* C30: in a Runge-Kutta run the scratchpad, of shape 1 x 1 x P, and the
\* vectors k1 and k2, of length P, are each created once, before the first
\* step; no step creates a buffer, and the scratchpad keeps its shape.
C30_BuffersCreatedOnce ==
    (scheme = "runge-kutta" /\ Stepped) =>
        /\ \A name \in {"rk_scratchpad", "k1", "k2"} : Cardinality(Created(name)) = 1
        /\ \A i \in 1..Len(buffers) :
              /\ buffers[i].step = 0
              /\ buffers[i].len = Len(filtration.process_names)
        /\ NumTimes(rk_scratchpad.val) = 1
        /\ Len(rk_scratchpad.val.scenarios) = 1
        /\ rk_scratchpad.val.process_names = filtration.process_names

====
